---- MODULE Spec2Model ----
(***************************************************************************)
(* Model of the resume builder: the enhancement orchestrator (AIEnhancer), *)
(* its deterministic rewriter, the scorer (ATSScorer) with its built-in    *)
(* engine and its external service, the parser (ResumeParser) on plain     *)
(* text with its name heuristic and its skill-list normalizer and on the   *)
(* styled paragraphs of a DOCX file, and the handlers of the application   *)
(* session: upload, save, score, "Enhance Resume", generate, start over.   *)
(*                                                                         *)
(* Texts are TLA+ strings, handled character by character with Len, \o     *)
(* and SubSeq as Python handles str.  The model's alphabet is ASCII: the   *)
(* bullet character U+2022 of the source is written "~", a character that  *)
(* occurs nowhere else in the modelled texts; likewise U+00B7 is "^",      *)
(* U+25B8 is "}", U+25AA is "{" and the en dash U+2013 is "=".             *)
(*                                                                         *)
(* Python dicts are objects of a heap, addressed by reference, so that     *)
(* dict(data) (a shallow copy) and an assignment through an alias can be   *)
(* told apart.  A key that is absent and a key that holds "" or [] are     *)
(* read alike by every .get of the source, and are modelled alike.         *)
(***************************************************************************)
EXTENDS Integers, Sequences, FiniteSets, TLC

VARIABLES
    heap,             \* the dict objects: resume records and experience entries
    resume_data,      \* reference of the record handed to enhance_resume (0: {})
    enhanced_data,    \* reference of the last record returned (0: {})
    enhancer,         \* the AIEnhancer instance: available, _quota_exceeded
    api_key,          \* the OpenAI key the instance is constructed with
    openai_installed, \* whether `from openai import OpenAI` succeeds
    target_role,      \* the target role of the requests
    ai_log,           \* the calls made to the external AI client by the last request
    quota_seen,       \* some call of this run has signalled quota exhaustion
    last,             \* the last request: its input, what held before it, its path
    step,             \* the step of the application session (1..4)
    rewrites,         \* number of deterministic rewrites made (runs of the rewriter)
    skills_run,       \* the last run of a skill function: its name, input and output
    bullets_run,      \* the last run of the bullet rewriter: its input, its output, the output rewritten
    score_run,        \* the last scoring pass: its inputs, its report, the report of the pass before
    hash_seed,        \* the string-hash seed of the interpreter process (orders set iteration)
    installed,        \* the document libraries that the interpreter can import
    upload,           \* the last run of the upload handler: the file, and what the parser gave
    walk,             \* the loop of _extract_from_docx: its position and its locals
    session           \* the other items of st.session_state: the texts, the scores, the document

vars == <<heap, resume_data, enhanced_data, enhancer, api_key, openai_installed,
          target_role, ai_log, quota_seen, last, step, rewrites, skills_run, bullets_run, score_run, hash_seed, installed, upload, walk, session>>

(***************************************************************************)
(* Python str operations                                                   *)
(***************************************************************************)
Bullet == "~"
MiddleDot == "^"
Triangle == "}"
SmallSquare == "{"
EnDash == "="

Ch(s, i) == SubSeq(s, i, i)

UpperAlpha == "ABCDEFGHIJKLMNOPQRSTUVWXYZ"
LowerAlpha == "abcdefghijklmnopqrstuvwxyz"
Digits == "0123456789"

CharsOf(s) == {Ch(s, i) : i \in 1..Len(s)}

UpperSet == CharsOf(UpperAlpha)
LowerSet == CharsOf(LowerAlpha)
DigitSet == CharsOf(Digits)
Whitespace == {" ", "\n", "\t"}
\* \w of the re module
WordChar == UpperSet \cup LowerSet \cup DigitSet \cup {"_"}

ToLower == [c \in UpperSet |-> Ch(LowerAlpha, CHOOSE i \in 1..26 : Ch(UpperAlpha, i) = c)]
ToUpper == [c \in LowerSet |-> Ch(UpperAlpha, CHOOSE i \in 1..26 : Ch(LowerAlpha, i) = c)]

LowerChar(c) == IF c \in UpperSet THEN ToLower[c] ELSE c
UpperChar(c) == IF c \in LowerSet THEN ToUpper[c] ELSE c

\* str.lower()
RECURSIVE Lower(_)
Lower(s) ==
    IF Len(s) = 0 THEN ""
    ELSE IF Len(s) = 1 THEN LowerChar(s)
    ELSE LET m == Len(s) \div 2
         IN  Lower(SubSeq(s, 1, m)) \o Lower(SubSeq(s, m + 1, Len(s)))

SetMin(S) == CHOOSE i \in S : \A j \in S : i <= j

\* s[i:] of Python, i counted from 1
From(s, i) == IF i > Len(s) THEN "" ELSE SubSeq(s, i, Len(s))

\* str.startswith, and its case-insensitive form (a literal under re.IGNORECASE)
StartsWith(s, p) == Len(s) >= Len(p) /\ SubSeq(s, 1, Len(p)) = p
StartsWithI(s, p) ==
    /\ Len(s) >= Len(p)
    /\ \A i \in 1..Len(p) : LowerChar(Ch(s, i)) = LowerChar(Ch(p, i))

\* key in text
Contains(key, text) ==
    \/ Len(key) = 0
    \/ \E i \in 1..(Len(text) - Len(key) + 1) :
           Ch(text, i) = Ch(key, 1) /\ SubSeq(text, i, i + Len(key) - 1) = key

\* the first index at or after i whose character is not in cs (Len(s) + 1: none)
RECURSIVE SkipRight(_, _, _)
SkipRight(s, i, cs) ==
    IF i > Len(s) \/ Ch(s, i) \notin cs THEN i ELSE SkipRight(s, i + 1, cs)

\* the last index at or before i whose character is not in cs (0: none)
RECURSIVE SkipLeft(_, _, _)
SkipLeft(s, i, cs) ==
    IF i < 1 \/ Ch(s, i) \notin cs THEN i ELSE SkipLeft(s, i - 1, cs)

\* str.lstrip(chars), str.rstrip(chars), str.strip(chars), str.strip()
LStripSet(s, cs) == From(s, SkipRight(s, 1, cs))
RStripSet(s, cs) == SubSeq(s, 1, SkipLeft(s, Len(s), cs))
StripSet(s, cs) == RStripSet(LStripSet(s, cs), cs)
Strip(s) == StripSet(s, Whitespace)

\* sep.join(parts)
RECURSIVE Join(_, _)
Join(sep, parts) ==
    IF Len(parts) = 0 THEN ""
    ELSE IF Len(parts) = 1 THEN parts[1]
    ELSE parts[1] \o sep \o Join(sep, Tail(parts))

\* s.split(c) for a one-character separator c
Split(s, c) ==
    LET at == {i \in 1..Len(s) : Ch(s, i) = c}
        \* the piece that starts at index i, and the pieces after it
        RECURSIVE pieces(_)
        pieces(i) ==
            LET next == {j \in at : j >= i}
            IN  IF next = {} THEN <<From(s, i)>>
                ELSE <<SubSeq(s, i, SetMin(next) - 1)>> \o pieces(SetMin(next) + 1)
    IN  pieces(1)

\* len(s.split()): the number of whitespace-separated words
WordCount(s) ==
    Cardinality({i \in 1..Len(s) :
        /\ Ch(s, i) \notin Whitespace
        /\ (i = 1 \/ Ch(s, i - 1) \in Whitespace)})

\* xs[:n]
Take(xs, n) == SubSeq(xs, 1, IF Len(xs) < n THEN Len(xs) ELSE n)

\* list(dict.fromkeys(xs)): first occurrences, in order, compared exactly
DictFromKeys(xs) ==
    LET first == {i \in 1..Len(xs) : \A j \in 1..(i - 1) : xs[j] # xs[i]}
        RECURSIVE pick(_)
        pick(i) == IF i > Len(xs) THEN <<>>
                   ELSE (IF i \in first THEN <<xs[i]>> ELSE <<>>) \o pick(i + 1)
    IN  pick(1)

HasDigit(s) == \E i \in 1..Len(s) : Ch(s, i) \in DigitSet

\* the last index of the run of characters of cs that starts at i (i - 1: no run)
RunEnd(s, i, cs) == SkipRight(s, i, cs) - 1

(***************************************************************************)
(* AIEnhancer: the deterministic rewriter                                  *)
(***************************************************************************)
\* re.sub(r'^<lit>\b', rep, s, count=1, flags=re.IGNORECASE)
SubPrefix(s, lit, rep) ==
    IF /\ StartsWithI(s, lit)
       /\ (Len(s) = Len(lit) \/ Ch(s, Len(lit) + 1) \notin WordChar)
    THEN rep \o From(s, Len(lit) + 1)
    ELSE s

\* re.sub(r'^Helped (with |to )?', 'Assisted in ', s, count=1, flags=re.IGNORECASE)
SubHelped(s) ==
    IF ~StartsWithI(s, "Helped ") THEN s
    ELSE IF StartsWithI(From(s, 8), "with ") THEN "Assisted in " \o From(s, 13)
    ELSE IF StartsWithI(From(s, 8), "to ") THEN "Assisted in " \o From(s, 11)
    ELSE "Assisted in " \o From(s, 8)

\* where the text after 'As an? ' starts (0: s does not start so)
AsStart(s) ==
    IF StartsWithI(s, "As a ") THEN 6 ELSE IF StartsWithI(s, "As an ") THEN 7 ELSE 0

\* the index of the first c of s at or after i (Len(s) + 1: none)
IndexOf(s, c, i) == SetMin({j \in i..Len(s) : Ch(s, j) = c} \cup {Len(s) + 1})

\* The end of the match of r'^As an? [\w\s]+ at [\w\s]+, I\s+' (withAt) or of
\* r'^As an? [\w\s]+, I\s+' at the start of s, 0 when there is none: the text
\* starts at `start`, and [\w\s] holds no comma, so the comma of the pattern
\* is the first comma of s, at c.
AsOpenerEnd(s, withAt, start, c) ==
    IF /\ start > 0
       /\ c > start
       /\ \A i \in start..(c - 1) : Ch(s, i) \in WordChar \cup Whitespace
       /\ withAt => \E p \in (start + 1)..(c - 5) : StartsWithI(From(s, p), " at ")
       /\ Len(s) >= c + 3
       /\ Ch(s, c + 1) = " "
       /\ Ch(s, c + 2) \in {"I", "i"}
       /\ Ch(s, c + 3) \in Whitespace
    THEN RunEnd(s, c + 3, Whitespace)
    ELSE 0

\* a variant of the two opener rules that never matches (C17 is checked against
\* it)
SubAsOpenerNever(s, withAt) == s

SubAsOpener(s, withAt) == From(s, AsOpenerEnd(s, withAt, AsStart(s), IndexOf(s, ",", 1)) + 1)

\* the table `replacements` of _rewrite_bullets
replacements == <<
    [re |-> "as_at",  lit |-> "", rep |-> ""],
    [re |-> "as",     lit |-> "", rep |-> ""],
    [re |-> "prefix", lit |-> "I contributed to", rep |-> "Collaborated to deliver"],
    [re |-> "prefix", lit |-> "Contributed to the design and development of",
                      rep |-> "Designed and developed"],
    [re |-> "prefix", lit |-> "Contributed to", rep |-> "Collaborated to deliver"],
    [re |-> "prefix", lit |-> "Leading the development of",
                      rep |-> "Led end-to-end development of"],
    [re |-> "prefix", lit |-> "Was responsible for", rep |-> "Managed"],
    [re |-> "helped", lit |-> "", rep |-> "Assisted in "],
    [re |-> "prefix", lit |-> "Worked on", rep |-> "Developed"],
    [re |-> "prefix", lit |-> "Used", rep |-> "Leveraged"],
    [re |-> "prefix", lit |-> "Made", rep |-> "Created"],
    [re |-> "prefix", lit |-> "Did", rep |-> "Executed"],
    [re |-> "prefix", lit |-> "Provided", rep |-> "Delivered"],
    [re |-> "prefix", lit |-> "Implemented a", rep |-> "Engineered a"],
    [re |-> "prefix", lit |-> "Designed to", rep |-> "Developed to"] >>

\* re.sub(pattern, replacement, s, count=1, flags=re.IGNORECASE) for rule n
ApplyRule(n, s) ==
    IF replacements[n].re = "as_at" THEN SubAsOpener(s, TRUE)
    ELSE IF replacements[n].re = "as" THEN SubAsOpener(s, FALSE)
    ELSE IF replacements[n].re = "helped" THEN SubHelped(s)
    ELSE SubPrefix(s, replacements[n].lit, replacements[n].rep)

\* the inner loop of _rewrite_bullets: the first rule that changes the line
\* wins (Len(replacements) + 1: no rule changes it)
FirstRule(s) ==
    SetMin({n \in 1..Len(replacements) : ApplyRule(n, s) # s} \cup {Len(replacements) + 1})

Improved(s, n) == IF n > Len(replacements) THEN s ELSE Strip(ApplyRule(n, s))

\* a variant of the capitalisation that also lowers an upper-case first letter
\* (C18 is checked against it)
CapitaliseToggle(improved) ==
    IF Len(improved) > 0 /\ Ch(improved, 1) \in LowerSet
    THEN UpperChar(Ch(improved, 1)) \o From(improved, 2)
    ELSE IF Len(improved) > 0 /\ Ch(improved, 1) \in UpperSet
    THEN LowerChar(Ch(improved, 1)) \o From(improved, 2)
    ELSE improved

\* capitalise the first letter
Capitalise(improved) ==
    IF Len(improved) > 0 /\ Ch(improved, 1) \in LowerSet
    THEN UpperChar(Ch(improved, 1)) \o From(improved, 2)
    ELSE improved

Markers == {Bullet, "-", "*", " "}

\* no marker, whatever the line begins with
NoPrefix(line) == ""

LinePrefix(line) ==
    IF StartsWith(line, Bullet \o " ") THEN Bullet \o " "
    ELSE IF StartsWith(line, "- ") THEN "- " ELSE ""

\* the body of the outer loop of _rewrite_bullets for one line, `stripped`
\* being line.strip().lstrip(markers)
RewriteStripped(line, stripped) ==
    IF stripped = "" THEN line
    ELSE LinePrefix(line) \o Capitalise(Improved(stripped, FirstRule(stripped)))

RewriteLine(line) == RewriteStripped(line, LStripSet(Strip(line), Markers))

RewriteLines(lines) == [i \in 1..Len(lines) |-> RewriteLine(lines[i])]

_rewrite_bullets(text) == Join("\n", RewriteLines(Split(text, "\n")))

RoleOf(text) ==
    IF Contains("flutter", text) THEN "Flutter Developer"
    ELSE IF Contains("machine learning", text) \/ Contains("aiml", text)
         THEN "AI/ML Engineer"
    ELSE IF Contains("react", text) \/ Contains("frontend", text)
         THEN "Frontend Developer"
    ELSE IF Contains("node", text) \/ Contains("backend", text)
         THEN "Backend Developer"
    ELSE IF Contains("python", text) THEN "Python Developer"
    ELSE "Software Developer"

_infer_role(exp_text, skills) == RoleOf(Lower(exp_text \o " " \o Join(" ", skills)))

ImpactMin == 20
ImpactMax == 120

\* the first line of `lines` the loop of _extract_impact returns on
ImpactLine(lines) ==
    SetMin({i \in 1..Len(lines) :
                /\ HasDigit(lines[i])
                /\ ImpactMin < Len(lines[i])
                /\ Len(lines[i]) < ImpactMax} \cup {Len(lines) + 1})

ImpactOf(lines, i) ==
    IF i > Len(lines) THEN "" ELSE LStripSet(Strip(lines[i]), Markers)

_extract_impact(exp_text) ==
    ImpactOf(Split(exp_text, "\n"), ImpactLine(Split(exp_text, "\n")))

\* r'(\d+)\+?\s*year' under re.I matches at i: the digits run from i, then an
\* optional '+', then whitespace, then 'year'
\* the position after an optional '+' at j
SkipPlus(s, j) == IF j <= Len(s) /\ Ch(s, j) = "+" THEN j + 1 ELSE j

YearAt(s, i) ==
    /\ Ch(s, i) \in DigitSet
    /\ StartsWithI(From(s, SkipRight(s, SkipPlus(s, SkipRight(s, i, DigitSet)), Whitespace)),
                   "year")

\* re.search(r'(\d+)\+?\s*year', original, re.I): group(1), "" without a match
YearDigitsAt(s, i) == IF i > Len(s) THEN "" ELSE SubSeq(s, i, RunEnd(s, i, DigitSet))

YearDigits(original) ==
    YearDigitsAt(original,
                 SetMin({i \in 1..Len(original) : YearAt(original, i)}
                        \cup {Len(original) + 1}))

SummarySkills == 5

SummaryText(role_str, yrs, skills_str, impact) ==
    "Results-driven " \o role_str \o " with "
    \o (IF yrs # "" THEN yrs \o "+ years of " ELSE "")
    \o "hands-on expertise in " \o skills_str \o ". "
    \o "Proven ability to design and deliver scalable, high-quality solutions that drive measurable impact."
    \o (IF impact # "" THEN " " \o impact ELSE "") \o " "
    \o "Thrives in collaborative environments with a strong focus on engineering excellence, continuous learning, and innovation."

\* a variant of _rewrite_summary that passes the original through (C8 is
\* checked against it)
SummaryPassthrough(original, skills, exp_text, role) == original

_rewrite_summary(original, skills, exp_text, role) ==
    SummaryText(IF role # "" THEN role ELSE _infer_role(exp_text, skills),
                YearDigits(original),
                IF Len(skills) > 0 THEN Join(", ", Take(skills, SummarySkills))
                ELSE "modern technologies",
                _extract_impact(exp_text))

\* role_map of _expand_skills, in the insertion order a dict iterates in
role_map == <<
    [key |-> "flutter",  extras |-> <<"Flutter", "Dart", "Android", "iOS", "Firebase", "REST API", "Mobile Development">>],
    [key |-> "android",  extras |-> <<"Android", "Kotlin", "Java", "Firebase", "REST API", "Material Design">>],
    [key |-> "frontend", extras |-> <<"HTML", "CSS", "JavaScript", "React", "Responsive Design", "UI/UX">>],
    [key |-> "backend",  extras |-> <<"Node.js", "REST API", "SQL", "MongoDB", "Express", "Microservices">>],
    [key |-> "python",   extras |-> <<"Python", "Django", "FastAPI", "Pandas", "NumPy", "SQL">>],
    [key |-> "ml",       extras |-> <<"Machine Learning", "Python", "TensorFlow", "Scikit-learn", "Data Analysis">>],
    [key |-> "aiml",     extras |-> <<"Python", "TensorFlow", "PyTorch", "NLP", "Machine Learning", "Deep Learning">> ] >>

professional == <<"Git", "Agile", "Problem Solving", "Team Collaboration", "Communication">>

MaxSkills == 25

\* a variant of the closing expression without the [:25] (C9 is checked
\* against it)
DedupOnly(xs) == DictFromKeys(xs)

\* list(dict.fromkeys(xs))[:25], the closing expression of _expand_skills and
\* of the skills step of _gpt_enhance
DedupAndCap(xs) == Take(DictFromKeys(xs), MaxSkills)

\* [s for s in extras if s.lower() not in existing_lower]
Fresh(extras, existing_lower) ==
    SelectSeq(extras, LAMBDA s : Lower(s) \notin existing_lower)

\* the loop over role_map: the extras of every bucket whose key is in all_text
RECURSIVE Buckets(_, _, _)
Buckets(n, all_text, existing_lower) ==
    IF n > Len(role_map) THEN <<>>
    ELSE (IF Contains(role_map[n].key, all_text)
          THEN Fresh(role_map[n].extras, existing_lower) ELSE <<>>)
         \o Buckets(n + 1, all_text, existing_lower)

\* a variant of to_add with the generic skills before the role buckets (C11 is
\* checked against it)
ToAddGenericFirst(all_text, existing_lower) ==
    Fresh(professional, existing_lower) \o Buckets(1, all_text, existing_lower)

ToAdd(all_text, existing_lower) ==
    Buckets(1, all_text, existing_lower) \o Fresh(professional, existing_lower)

_expand_skills(skills, role, jd) ==
    DedupAndCap(skills \o ToAdd(Lower(role \o " " \o Join(" ", skills)),
                                {Lower(skills[i]) : i \in 1..Len(skills)}))

(***************************************************************************)
(* ResumeParser: the skill-list normalizer                                 *)
(***************************************************************************)
\* re.sub(r'[•·|▸▪\n]', ',', body)
SeparatorsToCommas(body) ==
    LET seps == {Bullet, MiddleDot, "|", Triangle, SmallSquare, "\n"}
        RECURSIVE go(_)
        go(s) == IF Len(s) = 0 THEN ""
                 ELSE IF Len(s) = 1 THEN (IF s \in seps THEN "," ELSE s)
                 ELSE go(SubSeq(s, 1, Len(s) \div 2)) \o go(From(s, Len(s) \div 2 + 1))
    IN  go(body)

\* the class [A-Za-z &/()]
LabelChar == UpperSet \cup LowerSet \cup {" ", "&", "/", "(", ")"}

LabelColon(s) ==
    SetMin({c \in 2..Len(s) : Ch(s, c) = ":" /\ Ch(s, c - 1) \in LabelChar}
           \cup {Len(s) + 1})

\* re.sub(r'[A-Za-z &/()]+:\s*', '', s): every match, left to right; c is the
\* first colon of s that follows a character of the class (Len(s) + 1: none)
RECURSIVE StripLabelsAt(_, _)
StripLabelsAt(s, c) ==
    IF c > Len(s) THEN s
    ELSE SubSeq(s, 1, SkipLeft(s, c - 1, LabelChar))
         \o StripLabelsAt(From(s, SkipRight(s, c + 1, Whitespace)),
                LabelColon(From(s, SkipRight(s, c + 1, Whitespace))))

StripLabels(s) == StripLabelsAt(s, LabelColon(s))

bad_starts == <<"demonstrating", "i am", "with", "and ", "the ", "other basics">>

MinSkillLen == 1
MaxSkillLen == 50
MaxSkillWords == 5

SkillPunctuation == {" ", "-", EnDash, ":", Bullet, MiddleDot}

\* the condition under which the loop of _parse_skills keeps a part
KeepSkill(p) ==
    /\ MinSkillLen < Len(p)
    /\ Len(p) < MaxSkillLen
    /\ ~\E b \in 1..Len(bad_starts) : StartsWith(Lower(p), bad_starts[b])
    /\ WordCount(p) <= MaxSkillWords

SkillParts(raw) == [i \in 1..Len(raw) |-> StripSet(Strip(raw[i]), SkillPunctuation)]

_parse_skills(body) ==
    DictFromKeys(SelectSeq(SkillParts(Split(StripLabels(SeparatorsToCommas(body)), ",")),
                           KeepSkill))

(***************************************************************************)
(* Resume records and experience entries, as heap objects                  *)
(***************************************************************************)
EmptyResume ==
    [name |-> "", email |-> "", summary |-> "", experience_text |-> "",
     education_text |-> "", projects_text |-> "", skills |-> <<>>,
     certifications |-> <<>>, experience_entries |-> <<>>, project_entries |-> <<>>,
     full_text |-> ""]

\* The records a caller hands to enhance_resume, with the entries they refer to.
\* experience_entries holds references into this heap.
Originals == <<
    [EmptyResume EXCEPT !.name = "Ann Lee", !.summary = "I am a developer."],
    [EmptyResume EXCEPT !.name = "Bo Chen", !.email = "bo@x.org",
        !.summary = "Python developer with 3 years of experience. ",
        !.experience_text = "~ Used Python to build APIs\n- worked on a team of 5 to cut build time by 20%"],
    [EmptyResume EXCEPT !.name = "Cy Diaz", !.skills = <<"Python">>],
    [EmptyResume EXCEPT !.name = "Di Eri", !.summary = "Engineer.",
        !.education_text = "BSc 2019", !.projects_text = "Made a resume tool",
        !.certifications = <<"AWS">>, !.experience_entries = <<6, 7>>,
        !.project_entries = <<[name |-> "Tool", tech |-> "Go", description |-> ""]>>],
    [EmptyResume EXCEPT !.name = "Ed Fox", !.summary = "Team player.",
        !.skills = <<"Git", "Agile", "Problem Solving", "Team Collaboration",
                     "Communication">>],
    [title |-> "Developer", company |-> "Acme", duration |-> "2020-2022",
        responsibilities |-> <<"Was responsible for 3 services", "~ helped with code reviews">>],
    [title |-> "Intern", company |-> "", duration |-> "2019", responsibilities |-> <<>>] >>

NumOriginals == Len(Originals)
RecordRefs == {r \in 1..NumOriginals : "summary" \in DOMAIN Originals[r]}

\* a variant of dict(d) that hands back d itself (C6 is checked against it)
DictAlias(h, r) == [h |-> h, ref |-> r]

\* dict(d): a new object with d's items; the items themselves are shared
DictCopy(h, r) == [h |-> Append(h, h[r]), ref |-> Len(h) + 1]

\* d[key] = value
SetItem(h, r, key, value) == [h EXCEPT ![r] = [@ EXCEPT ![key] = value]]

RECURSIVE Concat(_)
Concat(seqs) == IF Len(seqs) = 0 THEN <<>> ELSE Head(seqs) \o Concat(Tail(seqs))

NonEmpty(xs) == SelectSeq(xs, LAMBDA x : x # "")

\* An entry of the manual form keeps the text of its form field under
\* 'responsibilities' (app.py:270-276), an entry of the parser a list of
\* lines.  The model shows a str there by the item resp_is_str of the entry,
\* which stands for the type the code asks for with isinstance.
IsStr(e) == "resp_is_str" \in DOMAIN e /\ e.resp_is_str

\* the characters of a str, as iterating over it gives them
Chars(s) == [i \in 1..Len(s) |-> Ch(s, i)]

\* e['responsibilities'] = lines, a list
SetLines(h, r, lines) ==
    IF "resp_is_str" \in DOMAIN h[r]
    THEN [h EXCEPT ![r] = [@ EXCEPT !.responsibilities = lines, !.resp_is_str = FALSE]]
    ELSE [h EXCEPT ![r] = [@ EXCEPT !.responsibilities = lines]]

\* what _build_full_text adds for e['responsibilities']: the items of a
\* list, a non-empty str as one part
ResponsibilityParts(e) ==
    IF IsStr(e) THEN (IF e.responsibilities # "" THEN <<e.responsibilities>> ELSE <<>>)
    ELSE e.responsibilities

\* the truth value of e['responsibilities']
HasResponsibilities(e) ==
    IF IsStr(e) THEN e.responsibilities # "" ELSE e.responsibilities # <<>>

\* '\n'.join(responsibilities) if it is a list, else the str itself
RuleText(e) == IF IsStr(e) THEN e.responsibilities ELSE Join("\n", e.responsibilities)

\* '\n'.join(exp.get('responsibilities', [])): a str is joined character by
\* character
GptText(e) ==
    IF IsStr(e) THEN Join("\n", Chars(e.responsibilities)) ELSE Join("\n", e.responsibilities)

_build_full_text(h, r) ==
    LET data == h[r]
        texts == NonEmpty(<<data.name, data.email, data.summary, data.experience_text,
                            data.education_text, data.projects_text>>)
        skills == IF data.skills # <<>> THEN <<Join(", ", data.skills)>> ELSE <<>>
        certs  == IF data.certifications # <<>>
                  THEN <<Join(", ", data.certifications)>> ELSE <<>>
        exps   == Concat([i \in 1..Len(data.experience_entries) |->
                      LET e == h[data.experience_entries[i]]
                      IN  NonEmpty(<<e.title, e.company>>) \o ResponsibilityParts(e)])
        projs  == Concat([i \in 1..Len(data.project_entries) |->
                      LET e == data.project_entries[i]
                      IN  NonEmpty(<<e.name, e.tech, e.description>>)])
    IN  Join(" ", texts \o skills \o certs \o exps \o projs)

\* the first loop over experience_entries in _rule_enhance: copy each entry and
\* rewrite its responsibilities
RECURSIVE RuleEntries(_, _, _)
RuleEntries(h, todo, new_entries) ==
    IF Len(todo) = 0 THEN [h |-> h, refs |-> new_entries]
    ELSE RuleEntries(
             IF HasResponsibilities(h[Head(todo)])
             THEN SetLines(DictCopy(h, Head(todo)).h, DictCopy(h, Head(todo)).ref,
                           Split(_rewrite_bullets(RuleText(h[Head(todo)])), "\n"))
             ELSE DictCopy(h, Head(todo)).h,
             Tail(todo),
             Append(new_entries, DictCopy(h, Head(todo)).ref))

\* the lines of one rewritten entry in the second loop
EntryLines(kept) == [i \in 1..Len(kept) |-> Bullet \o " " \o LStripSet(kept[i], {Bullet, " "})]

\* the second loop: the text block of one rewritten entry
EntryBlock(e) ==
    e.title \o " | " \o e.company \o " (" \o e.duration \o ")" \o "\n"
    \o (IF IsStr(e) THEN e.responsibilities
        ELSE Join("\n", EntryLines(SelectSeq(e.responsibilities, LAMBDA r : Strip(r) # ""))))

\* enhanced['experience_entries'] = new_entries alone
SetEntriesOnly(ents, enhanced) ==
    SetItem(ents.h, enhanced, "experience_entries", ents.refs)

\* enhanced['experience_entries'] = new_entries, then the rebuilt experience_text
SetEntries(ents, enhanced) ==
    SetItem(SetItem(ents.h, enhanced, "experience_entries", ents.refs),
            enhanced, "experience_text",
            Join("\n\n", [i \in 1..Len(ents.refs) |-> EntryBlock(ents.h[ents.refs[i]])]))

\* a variant of the order of assignment in which full_text is built first
\* (C7 is checked against it)
FieldsFullTextFirst ==
    << "full_text", "summary", "experience_text", "experience_entries", "projects_text",
       "skills" >>

\* the fields _rule_enhance and _gpt_enhance assign, in the order of the code
Fields == << "summary", "experience_text", "experience_entries", "projects_text",
             "skills", "full_text" >>

\* the statement of _rule_enhance that assigns the field `key`
RuleStep(key, h, enhanced, data, role, jd) ==
    CASE key = "summary" ->
            SetItem(h, enhanced, "summary",
                    _rewrite_summary(h[data].summary, h[data].skills,
                                     h[data].experience_text, role))
      [] key = "experience_text" ->
            IF h[data].experience_text # ""
            THEN SetItem(h, enhanced, "experience_text",
                         _rewrite_bullets(h[data].experience_text))
            ELSE h
      [] key = "experience_entries" ->
            IF h[data].experience_entries # <<>>
            THEN SetEntries(RuleEntries(h, h[data].experience_entries, <<>>), enhanced)
            ELSE h
      [] key = "projects_text" ->
            IF h[data].projects_text # ""
            THEN SetItem(h, enhanced, "projects_text",
                         _rewrite_bullets(h[data].projects_text))
            ELSE h
      [] key = "skills" ->
            SetItem(h, enhanced, "skills", _expand_skills(h[data].skills, role, jd))
      [] key = "full_text" ->
            SetItem(h, enhanced, "full_text", _build_full_text(h, enhanced))

RECURSIVE RuleSteps(_, _, _, _, _, _)
RuleSteps(k, h, enhanced, data, role, jd) ==
    IF k > Len(Fields) THEN h
    ELSE RuleSteps(k + 1, RuleStep(Fields[k], h, enhanced, data, role, jd),
                   enhanced, data, role, jd)

_rule_enhance(h, data, role, jd) ==
    [h   |-> RuleSteps(1, DictCopy(h, data).h, DictCopy(h, data).ref, data, role, jd),
     ref |-> DictCopy(h, data).ref]

(***************************************************************************)
(* AIEnhancer: the AI path                                                 *)
(***************************************************************************)
\* What the external client does with one call: signal quota exhaustion, fail
\* otherwise, or answer with the text it was given (an empty answer when that
\* text is empty) or with a new text.
Outcomes == {"quota", "error", "same", "new"}

AiText ==
    [summary    |-> "Seasoned engineer with 7+ years of experience building reliable systems.",
     experience |-> "~ Led migration of 3 services to the cloud, cutting costs by 30%",
     bullets    |-> "Built REST APIs\nReduced latency by 40%",
     projects   |-> "Resume Builder: shipped a parsing pipeline used by 200 users",
     skills     |-> "Docker, python, Git"]

\* resp.choices[0].message.content
Content(outcome, kind, text) ==
    IF outcome = "same" THEN text
    ELSE IF outcome = "new" THEN AiText[kind]
    ELSE ""

\* a variant of the quota branch that sets the flag and returns "" instead of
\* raising (C1 is checked against it)
QuotaErrorSwallowed(st, made) == [st EXCEPT !.quota = TRUE, !.log = made, !.r = ""]

\* a variant of the quota branch that raises and leaves the flag alone (C2 is
\* checked against it)
QuotaErrorNoFlag(st, made) == [st EXCEPT !.log = made, !.raised = TRUE, !.r = ""]

\* a variant of the branch for other errors that re-raises (C4 is checked
\* against it)
OtherErrorRaises(st, made) == [st EXCEPT !.log = made, !.raised = TRUE, !.r = ""]

\* the except branch of _call for a quota error: set the flag and re-raise
QuotaError(st, made) ==
    [st EXCEPT !.quota = TRUE, !.log = made, !.raised = TRUE, !.r = ""]

\* the except branch of _call for any other error: return ""
OtherError(st, made) == [st EXCEPT !.log = made, !.r = ""]

\* the client call of _call and what _call does with its outcome
Create(st, kind, text, outcome) ==
    IF outcome = "quota"
    THEN QuotaError(st, Append(st.log, [kind |-> kind, outcome |-> outcome]))
    ELSE IF outcome = "error"
    THEN OtherError(st, Append(st.log, [kind |-> kind, outcome |-> outcome]))
    ELSE [st EXCEPT !.log = Append(st.log, [kind |-> kind, outcome |-> outcome]),
                    !.r = Strip(Content(outcome, kind, text))]

\* _call.  st carries the heap, _quota_exceeded, the calls made so far in this
\* request and whether an exception is propagating; the reply is st.r.
_call(st, kind, text, oracle) ==
    IF st.quota THEN [st EXCEPT !.r = ""]
    ELSE Create(st, kind, text, oracle[Len(st.log) + 1])

\* r or original
Or(r, original) == IF r # "" THEN r ELSE original

\* enhanced[key] = r or original, unless _call raised
SetFromReply(st, enhanced, key, original) ==
    IF st.raised THEN st
    ELSE [st EXCEPT !.h = SetItem(@, enhanced, key, Or(st.r, original))]

\* e['responsibilities'] = (r or resp_text).split('\n'), unless _call raised
SetResponsibilities(st, e, resp_text) ==
    IF st.raised THEN st
    ELSE [st EXCEPT !.h = SetLines(@, e, Split(Or(st.r, resp_text), "\n"))]

\* the body of the loop over experience_entries in _gpt_enhance, after e = dict(exp)
GptEntry(st, e, resp_text, oracle) ==
    IF resp_text # ""
    THEN SetResponsibilities(_call(st, "bullets", resp_text, oracle), e, resp_text)
    ELSE st

\* the loop over experience_entries in _gpt_enhance
RECURSIVE GptEntries(_, _, _, _)
GptEntries(st, todo, new_entries, oracle) ==
    IF Len(todo) = 0 \/ st.raised THEN [st |-> st, refs |-> new_entries]
    ELSE GptEntries(
             GptEntry([st EXCEPT !.h = DictCopy(st.h, Head(todo)).h],
                      DictCopy(st.h, Head(todo)).ref,
                      GptText(st.h[Head(todo)]), oracle),
             Tail(todo),
             Append(new_entries, DictCopy(st.h, Head(todo)).ref),
             oracle)

\* enhanced['experience_entries'] = new_entries, unless _call raised in the loop
SetGptEntries(ents, enhanced) ==
    IF ents.st.raised THEN ents.st
    ELSE [ents.st EXCEPT !.h = SetItem(@, enhanced, "experience_entries", ents.refs)]

\* [s.strip() for s in r.split(',') if s.strip()]
StripAll(raw) == NonEmpty([i \in 1..Len(raw) |-> Strip(raw[i])])

ReplySkills(r) == StripAll(Split(r, ","))

\* if r: enhanced['skills'] = list(dict.fromkeys(data['skills'] + new_skills))[:25]
MergeSkills(skills, r) == DedupAndCap(skills \o ReplySkills(r))

SetSkillsFromReply(st, enhanced, skills) ==
    IF st.raised \/ st.r = "" THEN st
    ELSE [st EXCEPT !.h = SetItem(@, enhanced, "skills", MergeSkills(skills, st.r))]

\* the statement of _gpt_enhance that assigns the field `key`
GptStep(key, st, enhanced, data, oracle) ==
    CASE key = "summary" ->
            SetFromReply(_call(st, "summary", st.h[data].summary, oracle),
                         enhanced, "summary", st.h[data].summary)
      [] key = "experience_text" ->
            IF st.h[data].experience_text # ""
            THEN SetFromReply(_call(st, "experience", st.h[data].experience_text, oracle),
                              enhanced, "experience_text", st.h[data].experience_text)
            ELSE st
      [] key = "experience_entries" ->
            IF st.h[data].experience_entries # <<>>
            THEN SetGptEntries(GptEntries(st, st.h[data].experience_entries, <<>>, oracle),
                               enhanced)
            ELSE st
      [] key = "projects_text" ->
            IF st.h[data].projects_text # ""
            THEN SetFromReply(_call(st, "projects", st.h[data].projects_text, oracle),
                              enhanced, "projects_text", st.h[data].projects_text)
            ELSE st
      [] key = "skills" ->
            IF st.h[data].skills # <<>>
            THEN SetSkillsFromReply(_call(st, "skills", Join(", ", st.h[data].skills), oracle),
                                    enhanced, st.h[data].skills)
            ELSE st
      [] key = "full_text" ->
            [st EXCEPT !.h = SetItem(@, enhanced, "full_text",
                                     _build_full_text(st.h, enhanced))]

\* the statements of _gpt_enhance in order, up to the one that raises
RECURSIVE GptSteps(_, _, _, _, _)
GptSteps(k, st, enhanced, data, oracle) ==
    IF k > Len(Fields) \/ st.raised THEN st
    ELSE GptSteps(k + 1, GptStep(Fields[k], st, enhanced, data, oracle),
                  enhanced, data, oracle)

GptResult(st, enhanced) ==
    [h |-> st.h, ref |-> enhanced, quota |-> st.quota, log |-> st.log,
     raised |-> st.raised]

_gpt_enhance(h, data, jd, role, oracle, quota) ==
    GptResult(GptSteps(1, [h |-> DictCopy(h, data).h, quota |-> quota, log |-> <<>>,
                           raised |-> FALSE, r |-> ""],
                       DictCopy(h, data).ref, data, oracle),
              DictCopy(h, data).ref)

ImprovedKeys == {"summary", "experience_text", "projects_text"}

\* the test of the loop of _is_improved on the stripped values of one key
Differs(orig, new) == orig # "" /\ new # "" /\ orig # new

_is_improved(h, enhanced, original) ==
    \E key \in ImprovedKeys : Differs(Strip(h[original][key]), Strip(h[enhanced][key]))

\* AIEnhancer.__init__; importable: the openai package can be imported
NewEnhancer(key, importable) ==
    [available |-> StartsWith(Strip(key), "sk-") /\ importable,
     _quota_exceeded |-> FALSE]

\* what a request leaves behind: the heap and the record returned, the
\* instance's flag, the calls made and the path that produced the record
Returned(res, quota, log, path) ==
    [h |-> res.h, ref |-> res.ref, quota |-> quota, log |-> log, path |-> path]

\* the rest of enhance_resume once _gpt_enhance has returned or raised
AfterGpt(g, data, role, job_description) ==
    IF ~g.raised /\ _is_improved(g.h, g.ref, data)
    THEN Returned([h |-> SetItem(g.h, g.ref, "full_text", _build_full_text(g.h, g.ref)),
                   ref |-> g.ref],
                  g.quota, g.log, "ai")
    ELSE Returned(_rule_enhance(g.h, data, role, job_description),
                  g.quota, g.log, "rule")

\* enhance_resume on the instance self
enhance_resume(self, h, data, job_description, role, oracle) ==
    IF self.available /\ ~self._quota_exceeded
    THEN AfterGpt(_gpt_enhance(h, data, job_description, role, oracle,
                               self._quota_exceeded),
                  data, role, job_description)
    ELSE Returned(_rule_enhance(h, data, role, job_description),
                  self._quota_exceeded, <<>>, "rule")

\* the record r of heap h with its entries in place of their references
Deep(h, r) ==
    [h[r] EXCEPT !.experience_entries = [i \in 1..Len(@) |-> h[@[i]]]]

\* the AI sub-calls _gpt_enhance makes for the record r when none aborts
SubCallKinds(h, r) ==
    <<"summary">>
    \o (IF h[r].experience_text # "" THEN <<"experience">> ELSE <<>>)
    \o [i \in 1..Len(SelectSeq(h[r].experience_entries,
                        LAMBDA e : GptText(h[e]) # "")) |-> "bullets"]
    \o (IF h[r].projects_text # "" THEN <<"projects">> ELSE <<>>)
    \o (IF h[r].skills # <<>> THEN <<"skills">> ELSE <<>>)

NumSubCalls(h, r) == Len(SubCallKinds(h, r))

(***************************************************************************)
(* One AIEnhancer instance, called again and again (specification Spec)    *)
(***************************************************************************)
ApiKeys == {"", "sk-test", " sk-padded ", "not-a-key"}
Roles == {"", "ML Engineer"}
JobDescription == ""

NoRequest == [input |-> 0, quota_before |-> FALSE, seen_before |-> FALSE, path |-> "none"]
NoSkillsRun ==
    [op |-> "none", input |-> <<>>, body |-> "", role |-> "", jd |-> "", output |-> <<>>]
NoBulletsRun == [op |-> "none", input |-> "", output |-> "", again |-> ""]

\* None of Python, where a report is expected
None == [none |-> TRUE]

NoScoreRun ==
    [op |-> "none", data |-> 0, raw_text |-> "", jd |-> "", key |-> "", sent |-> "",
     review |-> 0, match |-> 0, seeds |-> <<>>, builtin |-> None, report |-> None,
     previous |-> None, alone |-> None]

Libraries == {"pdfplumber", "PyPDF2", "docx"}
NoFile == [filename |-> "", opens |-> FALSE, text |-> ""]
NoUpload == [op |-> "none", file |-> NoFile, raised |-> FALSE, error |-> "",
             parsed_data |-> None, raw_text |-> ""]
NoWalk == [pc |-> "idle"]

\* the defaults of the session items (src/app.py, `defaults`); derived, scored,
\* final and saved tell which saved record the enhanced record, the original
\* score and the document were made from (0: none)
NoSession ==
    [original_text |-> "", original_score |-> None, enhanced_score |-> None,
     generated |-> FALSE, docx_bytes |-> None,
     derived |-> 0, scored |-> 0, final |-> 0, saved |-> 0]

Init ==
    /\ heap = Originals
    /\ resume_data \in RecordRefs
    /\ enhanced_data = 0
    /\ api_key \in ApiKeys
    /\ openai_installed \in BOOLEAN
    /\ enhancer = NewEnhancer(api_key, openai_installed)
    /\ target_role \in Roles
    /\ ai_log = <<>>
    /\ quota_seen = FALSE
    /\ last = NoRequest
    /\ step = 1
    /\ rewrites = 0
    /\ skills_run = NoSkillsRun
    /\ bullets_run = NoBulletsRun
    /\ score_run = NoScoreRun
    /\ hash_seed = 0
    /\ installed = Libraries
    /\ upload = NoUpload
    /\ walk = NoWalk
    /\ session = NoSession

\* the replies the external client may give to the calls of one request
Oracles(self, h, r) ==
    [1..(IF self.available /\ ~self._quota_exceeded THEN NumSubCalls(h, r) ELSE 0)
        -> Outcomes]

SignalsQuota(log) == \E i \in 1..Len(log) : log[i].outcome = "quota"

\* what a request with the result res leaves in the ghost variables
Request(self, data, res) ==
    /\ ai_log' = res.log
    /\ quota_seen' = (quota_seen \/ SignalsQuota(res.log))
    /\ last' = [input |-> data, quota_before |-> self._quota_exceeded,
                seen_before |-> quota_seen, path |-> res.path]

\* enhancer.enhance_resume(resume_data, job_description, target_role, ...); the
\* record returned by the request before is garbage by now
EnhanceResume ==
    \E oracle \in Oracles(enhancer, heap, resume_data) :
        \E res \in {enhance_resume(enhancer, Take(heap, NumOriginals), resume_data,
                                   JobDescription, target_role, oracle)} :
            /\ heap' = res.h
            /\ enhanced_data' = res.ref
            /\ enhancer' = [enhancer EXCEPT !._quota_exceeded = res.quota]
            /\ Request(enhancer, resume_data, res)
            /\ UNCHANGED <<resume_data, api_key, openai_installed, target_role, step,
                           rewrites, skills_run, bullets_run, score_run, hash_seed, installed, upload, walk, session>>

Next == EnhanceResume

Spec == Init /\ [][Next]_vars

(***************************************************************************)
(* The application session (specification SpecApp)                         *)
(***************************************************************************)
\* the records a user saves in the session
AppRecords == {1, 3}

Max(a, b) == IF a >= b THEN a ELSE b

\* the session defaults; no AIEnhancer exists before the first click: enhancer
\* is shown as the instance an empty key gives
InitApp ==
    /\ heap = Originals
    /\ resume_data = 0
    /\ enhanced_data = 0
    /\ api_key = ""
    /\ openai_installed \in BOOLEAN
    /\ enhancer = NewEnhancer("", openai_installed)
    /\ target_role = ""
    /\ ai_log = <<>>
    /\ quota_seen = FALSE
    /\ last = NoRequest
    /\ step = 1
    /\ rewrites = 0
    /\ skills_run = NoSkillsRun
    /\ bullets_run = NoBulletsRun
    /\ score_run = NoScoreRun
    /\ hash_seed = 0
    /\ installed = Libraries
    /\ upload = NoUpload
    /\ walk = NoWalk
    /\ session = NoSession

\* the sidebar: a non-empty input replaces the key of the session
SetApiKey ==
    \E key \in ApiKeys \ {""} :
        /\ api_key' = key
        /\ UNCHANGED <<heap, resume_data, enhanced_data, enhancer, openai_installed,
                       target_role, ai_log, quota_seen, last, step, rewrites, skills_run, bullets_run, score_run, hash_seed, installed, upload, walk, session>>

\* "Save Parsed Data" and the save of the manual form
SaveResumeData ==
    \E r \in AppRecords :
        /\ resume_data' = r
        /\ step' = Max(step, 2)
        /\ UNCHANGED <<heap, enhanced_data, enhancer, api_key, openai_installed,
                       target_role, ai_log, quota_seen, last, rewrites, skills_run, bullets_run, score_run, hash_seed, installed, upload, walk, session>>

ListFields == {"skills", "certifications", "experience_entries", "project_entries"}

\* not enhanced[k]
Falsy(k, v) == IF k \in ListFields THEN v = <<>> ELSE v = ""

\* for k, v in resume_data.items(): if k not in enhanced or not enhanced[k]: enhanced[k] = v
Merge(h, enhanced, data) ==
    [h EXCEPT ![enhanced] =
        [k \in DOMAIN h[enhanced] |->
            IF Falsy(k, h[enhanced][k]) THEN h[data][k] ELSE h[enhanced][k]]]

\* the "Enhance Resume" button: a new AIEnhancer with the key of the session,
\* one request on it, the merge of the original fields, the result stored
EnhanceResumeButton ==
    /\ resume_data # 0
    /\ \E role \in Roles :
        \E oracle \in Oracles(NewEnhancer(api_key, openai_installed), heap, resume_data) :
            \E res \in {enhance_resume(NewEnhancer(api_key, openai_installed),
                                       Take(heap, NumOriginals), resume_data,
                                       JobDescription, role, oracle)} :
                /\ heap' = Merge(res.h, res.ref, resume_data)
                /\ enhanced_data' = res.ref
                /\ enhancer' = [NewEnhancer(api_key, openai_installed)
                                    EXCEPT !._quota_exceeded = res.quota]
                /\ target_role' = role
                /\ Request(NewEnhancer(api_key, openai_installed), resume_data, res)
                /\ step' = Max(step, 4)
                /\ UNCHANGED <<resume_data, api_key, openai_installed, rewrites, skills_run, bullets_run, score_run, hash_seed, installed, upload, walk, session>>

NextApp == SetApiKey \/ SaveResumeData \/ EnhanceResumeButton

SpecApp == InitApp /\ [][NextApp]_vars

(***************************************************************************)
(* The deterministic rewriter run on its own output (specification         *)
(* SpecRule)                                                               *)
(***************************************************************************)
MaxRewrites == 3

\* the records handed to the rewriter: those of Originals, the record with
\* experience entries holding an experience text beside them
RuleOriginals ==
    [Originals EXCEPT ![4].experience_text = "worked on 3 services at Acme"]

InitRule ==
    /\ heap = RuleOriginals
    /\ resume_data \in RecordRefs
    /\ enhanced_data = 0
    /\ api_key = ""
    /\ openai_installed = FALSE
    /\ enhancer = NewEnhancer(api_key, openai_installed)
    /\ target_role = ""
    /\ ai_log = <<>>
    /\ quota_seen = FALSE
    /\ last = NoRequest
    /\ step = 1
    /\ rewrites = 0
    /\ skills_run = NoSkillsRun
    /\ bullets_run = NoBulletsRun
    /\ score_run = NoScoreRun
    /\ hash_seed = 0
    /\ installed = Libraries
    /\ upload = NoUpload
    /\ walk = NoWalk
    /\ session = NoSession

\* _rule_enhance(resume_data, role, jd)
RuleEnhance ==
    /\ rewrites < MaxRewrites
    /\ \E role \in Roles :
        \E res \in {_rule_enhance(heap, resume_data, role, JobDescription)} :
            /\ heap' = res.h
            /\ enhanced_data' = res.ref
            /\ target_role' = role
            /\ last' = [NoRequest EXCEPT !.input = resume_data, !.path = "rule"]
            /\ rewrites' = rewrites + 1
            /\ UNCHANGED <<resume_data, enhancer, api_key, openai_installed, ai_log,
                           quota_seen, step, skills_run, bullets_run, score_run, hash_seed, installed, upload, walk, session>>

\* the record returned becomes the record of the next rewrite
UseOutput ==
    /\ enhanced_data # 0
    /\ resume_data # enhanced_data
    /\ resume_data' = enhanced_data
    /\ UNCHANGED <<heap, enhanced_data, enhancer, api_key, openai_installed, target_role,
                   ai_log, quota_seen, last, step, rewrites, skills_run, bullets_run, score_run, hash_seed, installed, upload, walk, session>>

NextRule == RuleEnhance \/ UseOutput

SpecRule == InitRule /\ [][NextRule]_vars

(***************************************************************************)
(* The skill functions on bounded inputs (specification SpecSkills)        *)
(***************************************************************************)
MaxFill == 26

\* n distinct skills
Fill(n) == [i \in 1..n |-> "skill" \o ToString(i)]

SkillBases ==
    { <<>>, <<"Python">>, <<"python", "Python">>, <<"Flutter">>, <<"git", "AGILE">> }
JobDescriptions == {"", "Flutter developer wanted"}
SkillBodies ==
    { "", "python, Python", "Python, Java, python, Java",
      "Languages: Python, Java\n~ Docker | Git", "with care, - Go =, the end" }
Replies == { "Docker, python, Git", "PYTHON", "Docker , ,Git" }

InitSkills ==
    /\ heap = Originals
    /\ resume_data = 0
    /\ enhanced_data = 0
    /\ api_key = ""
    /\ openai_installed = FALSE
    /\ enhancer = NewEnhancer(api_key, openai_installed)
    /\ target_role = ""
    /\ ai_log = <<>>
    /\ quota_seen = FALSE
    /\ last = NoRequest
    /\ step = 1
    /\ rewrites = 0
    /\ skills_run = NoSkillsRun
    /\ bullets_run = NoBulletsRun
    /\ score_run = NoScoreRun
    /\ hash_seed = 0
    /\ installed = Libraries
    /\ upload = NoUpload
    /\ walk = NoWalk
    /\ session = NoSession

skillsFrame ==
    <<heap, resume_data, enhanced_data, enhancer, api_key, openai_installed, target_role,
      ai_log, quota_seen, last, step, rewrites, bullets_run, score_run, hash_seed, installed, upload, walk, session>>

\* _expand_skills(skills, role, jd).  The skill functions keep no state: a
\* behaviour is one run of one of them.
ExpandSkills ==
    /\ skills_run = NoSkillsRun
    /\ \E n \in 0..MaxFill, base \in SkillBases, role \in Roles, jd \in JobDescriptions :
        /\ skills_run' = [NoSkillsRun EXCEPT !.op = "expand", !.input = Fill(n) \o base,
                              !.role = role, !.jd = jd,
                              !.output = _expand_skills(Fill(n) \o base, role, jd)]
        /\ UNCHANGED skillsFrame

\* _parse_skills(body)
ParseSkills ==
    /\ skills_run = NoSkillsRun
    /\ \E body \in SkillBodies :
        /\ skills_run' = [NoSkillsRun EXCEPT !.op = "parse", !.body = body,
                              !.output = _parse_skills(body)]
        /\ UNCHANGED skillsFrame

\* the skills step of _gpt_enhance on the reply r to a non-empty skills list
MergeReply ==
    /\ skills_run = NoSkillsRun
    /\ \E n \in 0..MaxFill, base \in SkillBases \ {<<>>}, r \in Replies :
        /\ skills_run' = [NoSkillsRun EXCEPT !.op = "merge", !.input = Fill(n) \o base,
                              !.body = r, !.output = MergeSkills(Fill(n) \o base, r)]
        /\ UNCHANGED skillsFrame

NextSkills == ExpandSkills \/ ParseSkills \/ MergeReply

SpecSkills == InitSkills /\ [][NextSkills]_vars

(***************************************************************************)
(* The bullet rewriter on bounded inputs (specification SpecBullets)       *)
(***************************************************************************)
\* the texts: a first line made of a marker, an opener and a body, and
\* possibly a second line
BulletMarkers == {"", "~ ", "- ", "* ", "  - ", "*\t", "  "}
BulletOpeners == {"", "As a dev, I ", "As a Developer at Acme, I "}
BulletBodies ==
    { "", "contributed to the design and development of an app", "- led x",
      "used Python", "Built it", "shipped v2", "helped with testing" }
BulletTails == {"", "\n- made things"}

InitBullets ==
    /\ heap = Originals
    /\ resume_data = 0
    /\ enhanced_data = 0
    /\ api_key = ""
    /\ openai_installed = FALSE
    /\ enhancer = NewEnhancer(api_key, openai_installed)
    /\ target_role = ""
    /\ ai_log = <<>>
    /\ quota_seen = FALSE
    /\ last = NoRequest
    /\ step = 1
    /\ rewrites = 0
    /\ skills_run = NoSkillsRun
    /\ bullets_run = NoBulletsRun
    /\ score_run = NoScoreRun
    /\ hash_seed = 0
    /\ installed = Libraries
    /\ upload = NoUpload
    /\ walk = NoWalk
    /\ session = NoSession

\* _rewrite_bullets(text), and _rewrite_bullets of what it returned.  The
\* rewriter keeps no state: a behaviour is one run.
RewriteBullets ==
    /\ bullets_run = NoBulletsRun
    /\ \E m \in BulletMarkers, o \in BulletOpeners, b \in BulletBodies, t \in BulletTails :
        \E out \in {_rewrite_bullets(m \o o \o b \o t)} :
            /\ bullets_run' = [op |-> "rewrite", input |-> m \o o \o b \o t,
                               output |-> out, again |-> _rewrite_bullets(out)]
            /\ UNCHANGED <<heap, resume_data, enhanced_data, enhancer, api_key,
                           openai_installed, target_role, ai_log, quota_seen, last, step,
                           rewrites, skills_run, score_run, hash_seed, installed, upload, walk, session>>

NextBullets == RewriteBullets

SpecBullets == InitBullets /\ [][NextBullets]_vars

(***************************************************************************)
(* ATSScorer: the built-in engine                                          *)
(***************************************************************************)
EmDash == "--"

TECHNICAL_KEYWORDS == <<
    "python", "javascript", "java", "c++", "c#", "react", "angular", "vue", "node.js",
    "django", "flask", "spring", "aws", "azure", "gcp", "docker", "kubernetes",
    "machine learning", "deep learning", "tensorflow", "pytorch", "sql", "postgresql",
    "mongodb", "redis", "git", "github", "ci/cd", "agile", "scrum", "devops",
    "html", "css", "typescript", "graphql", "rest api", "microservices", "linux",
    "data science", "artificial intelligence", "nlp", "computer vision", "blockchain",
    "generative ai", "llm", "langchain", "hugging face", "fastapi", "streamlit",
    "flutter", "android", "reinforcement learning", "transformers", "bert",
    "fine-tuning", "rag", "crewai", "mlflow", "oracle" >>

SOFT_SKILLS == <<
    "leadership", "communication", "teamwork", "problem solving", "analytical",
    "project management", "critical thinking", "collaboration", "adaptable",
    "organized", "detail-oriented", "self-motivated", "innovative", "strategic",
    "mentoring", "coaching" >>

POWER_VERBS == <<
    "achieved", "improved", "reduced", "increased", "developed", "launched",
    "managed", "led", "created", "built", "designed", "implemented", "delivered",
    "optimized", "streamlined", "automated", "collaborated", "mentored", "trained",
    "analyzed", "evaluated", "generated", "enhanced", "accelerated", "drove",
    "established", "spearheaded", "orchestrated", "transformed", "scaled" >>

\* [k for k in keys if k in text]
Found(keys, text) == SelectSeq(keys, LAMBDA k : Contains(k, text))

\* The scores of the engine are Python floats; here they are exact fractions
\* <<numerator, denominator>>, which differ from the floats only in the last
\* place.
RECURSIVE GCD(_, _)
GCD(a, b) == IF b = 0 THEN a ELSE GCD(b, a % b)

\* n / d
Frac(n, d) == <<n \div GCD(n, d), d \div GCD(n, d)>>

\* a + b
Plus(a, b) == Frac(a[1] * b[2] + b[1] * a[2], a[2] * b[2])

\* min(cap, a) for an integer cap
CapAt(cap, a) == IF a[1] > cap * a[2] THEN <<cap, 1>> ELSE a

\* round(a): to the nearest integer, a tie to the even one
round(a) ==
    LET q == a[1] \div a[2]
        twice == 2 * (a[1] % a[2])
    IN  IF twice < a[2] THEN q
        ELSE IF twice > a[2] THEN q + 1
        ELSE IF q % 2 = 0 THEN q ELSE q + 1

\* sum(len(re.findall(p, text, re.I)) for p in QUANTIFIERS), for the lower-cased
\* text t.  A pattern r'\d+<lit>' matches once for each maximal run of digits
\* that <lit> follows; r'\$\d+' once for each "$" that a digit follows; and
\* r'(increased|decreased|reduced|improved).*\d+' at most once in a line, as
\* .* runs to the last digit of the line: once if a digit follows one of the
\* verbs in the line.
QUANTIFIERS(t) ==
    LET runEnds == {i \in 1..Len(t) :
            /\ Ch(t, i) \in DigitSet
            /\ (i = Len(t) \/ Ch(t, i + 1) \notin DigitSet)}
        after(lit) == Cardinality({i \in runEnds : StartsWith(From(t, i + 1), lit)})
        dollars == Cardinality({i \in 1..(Len(t) - 1) :
            Ch(t, i) = "$" /\ Ch(t, i + 1) \in DigitSet})
        verbs == <<"increased", "decreased", "reduced", "improved">>
        lines == Split(t, "\n")
        verbThenDigit(line) ==
            \E v \in 1..Len(verbs) :
                \E p \in 1..(Len(line) - Len(verbs[v])) :
                    /\ Ch(line, p) = Ch(verbs[v], 1)
                    /\ SubSeq(line, p, p + Len(verbs[v]) - 1) = verbs[v]
                    /\ HasDigit(From(line, p + Len(verbs[v])))
    IN  after("%") + dollars + after("x") + after("+")
        + after(" percent") + after(" million") + after(" billion") + after(" thousand")
        + Cardinality({l \in 1..Len(lines) : verbThenDigit(lines[l])})

\* data.get(k) is truthy: the key is there, with a non-empty string or list
Truthy(data, k) ==
    /\ k \in DOMAIN data
    /\ IF k \in ListFields \cup {"education_entries", "responsibilities"}
       THEN data[k] # <<>> ELSE data[k] # ""

\* str(xs) of a list of strings that hold no quote, backslash or control character
StrOfList(xs) == "[" \o Join(", ", [i \in 1..Len(xs) |-> "'" \o xs[i] \o "'"]) \o "]"

\* [str(e[f]) for f in fields if e.get(f)] for each entry e of the list
EntryParts(entries, fields) ==
    Concat([i \in 1..Len(entries) |->
        Concat([f \in 1..Len(fields) |->
            IF ~Truthy(entries[i], fields[f]) THEN <<>>
            ELSE IF fields[f] = "responsibilities"
                 THEN <<StrOfList(entries[i][fields[f]])>>
                 ELSE <<entries[i][fields[f]]>>])])

\* data is the record with its experience entries in place of their references
_full_text(data, raw) ==
    Join(" ",
        <<raw>>
        \o NonEmpty(<<data.summary, data.experience_text, data.education_text,
                      data.projects_text>>)
        \o (IF Truthy(data, "skills") THEN <<Join(" ", data.skills)>> ELSE <<>>)
        \o (IF Truthy(data, "certifications")
            THEN <<Join(" ", data.certifications)>> ELSE <<>>)
        \o EntryParts(data.experience_entries, <<"title", "company", "responsibilities">>)
        \o EntryParts(data.project_entries, <<"name", "tech", "description">>))

\* the test of _has on the value of one key: a list with an entry that has a
\* truthy value or with a non-blank string, or a non-blank string
HasValue(data, k) ==
    IF k \notin DOMAIN data THEN FALSE
    ELSE IF k \in {"experience_entries", "education_entries"}
         THEN \E i \in 1..Len(data[k]) :
                  \E f \in DOMAIN data[k][i] : Truthy(data[k][i], f)
    ELSE IF k \in ListFields THEN \E i \in 1..Len(data[k]) : Strip(data[k][i]) # ""
    ELSE Strip(data[k]) # ""

_has(data, keys) == \E k \in keys : HasValue(data, k)

SectionChecks == <<
    [keys |-> {"name"}, pts |-> 10, msg |-> "Add your full name"],
    [keys |-> {"email"}, pts |-> 10, msg |-> "Add a professional email"],
    [keys |-> {"phone"}, pts |-> 8, msg |-> "Add your phone number"],
    [keys |-> {"summary"}, pts |-> 15, msg |-> "Add a professional summary"],
    [keys |-> {"skills"}, pts |-> 20, msg |-> "Add a dedicated skills section"],
    [keys |-> {"experience_text", "experience_entries"}, pts |-> 20,
     msg |-> "Add work experience"],
    [keys |-> {"education_text", "education_entries"}, pts |-> 17,
     msg |-> "Add your education"] >>

RECURSIVE SumOf(_)
SumOf(xs) == IF Len(xs) = 0 THEN 0 ELSE Head(xs) + SumOf(Tail(xs))

_sections(data) ==
    [score |-> CapAt(100, <<SumOf([i \in 1..Len(SectionChecks) |->
                   IF _has(data, SectionChecks[i].keys)
                   THEN SectionChecks[i].pts ELSE 0]), 1>>),
     sg |-> Concat([i \in 1..Len(SectionChecks) |->
                   IF _has(data, SectionChecks[i].keys)
                   THEN <<>> ELSE <<SectionChecks[i].msg>>])]

\* min(cap, len(found)/len(keys)*100)
Share(found, keys, cap) == CapAt(cap, Frac(found * 100, Len(keys)))

\* re.findall(r'\b[A-Z][a-zA-Z]{2,}\b', jd): the runs of word characters that
\* are three letters or more and start with a capital, in the order of jd
CapitalisedWords(jd) ==
    LET starts == {i \in 1..Len(jd) :
            /\ Ch(jd, i) \in WordChar
            /\ (i = 1 \/ Ch(jd, i - 1) \notin WordChar)}
        word(i) == SubSeq(jd, i, RunEnd(jd, i, WordChar))
        fits(w) == /\ Len(w) >= 3
                   /\ Ch(w, 1) \in UpperSet
                   /\ \A j \in 1..Len(w) : Ch(w, j) \in UpperSet \cup LowerSet
        RECURSIVE from(_)
        from(S) == IF S = {} THEN <<>>
                   ELSE (IF fits(word(SetMin(S))) THEN <<word(SetMin(S))>> ELSE <<>>)
                        \o from(S \ {SetMin(S)})
    IN  from(starts)

skip == {"The", "This", "That", "With", "Will", "Must", "Have", "Your", "Our", "We",
         "You", "Are", "For", "And", "Not", "Any", "All", "Can", "Would", "Should",
         "Could", "Team", "Work", "Help", "Role", "Job", "Years", "Strong", "Good"}

\* the seeds of the string hash an interpreter process may start with
HashSeeds == {0, 1}

\* list(set(kws)) for a list without duplicates: the items in the order of the
\* hash table, which the seed of the process fixes (here: as listed, or reversed)
ListOfSet(kws, seed) ==
    IF seed = 0 THEN kws ELSE [i \in 1..Len(kws) |-> kws[Len(kws) + 1 - i]]

_jd_kws(jd, seed) ==
    ListOfSet(DictFromKeys(Found(TECHNICAL_KEYWORDS, Lower(jd))
                           \o SelectSeq(CapitalisedWords(jd), LAMBDA w : w \notin skip)),
              seed)

\* [k for k in jd_kws if k.lower() not in text]
Missed(jd_kws, text) == SelectSeq(jd_kws, LAMBDA k : ~Contains(Lower(k), text))

\* sum(1 for k in kws if k.lower() in text)/len(kws), 0 without keywords
_jd_match(text, jd, seed) ==
    IF _jd_kws(jd, seed) = <<>> THEN <<0, 1>>
    ELSE Frac(Len(_jd_kws(jd, seed)) - Len(Missed(_jd_kws(jd, seed), text)),
              Len(_jd_kws(jd, seed)))

\* the part of _keywords that reads the job description: miss[:10] and the
\* suggestion made when more than half of the keywords are missed
JdKeywords(miss, jd_kws) ==
    [missing |-> Take(miss, 10),
     sg |-> IF 2 * Len(miss) > (IF Len(jd_kws) > 1 THEN Len(jd_kws) ELSE 1)
            THEN <<"Add job-description keywords: " \o Join(", ", Take(miss, 5))>>
            ELSE <<>>]

\* _keywords, from the numbers of keywords found and the part that reads the
\* job description
KeywordStage(tech, soft, verbs, fromJd) ==
    [score |-> CapAt(100, Plus(Plus(Share(tech, TECHNICAL_KEYWORDS, 50),
                                    Share(soft, SOFT_SKILLS, 20)),
                               Share(verbs, POWER_VERBS, 30))),
     sg |-> (IF tech < 5 THEN <<"Add more technical skills relevant to your role">>
             ELSE <<>>)
            \o (IF soft < 3
                THEN <<"Include soft skills like leadership and communication">>
                ELSE <<>>)
            \o (IF verbs < 5
                THEN <<"Use strong action verbs: achieved, led, implemented, optimized">>
                ELSE <<>>)
            \o fromJd.sg,
     missing |-> (IF verbs < 5
                  THEN <<"achieved", "led", "implemented", "optimized", "developed">>
                  ELSE <<>>)
                 \o fromJd.missing]

_keywords(text, jd, seed) ==
    KeywordStage(Len(Found(TECHNICAL_KEYWORDS, text)), Len(Found(SOFT_SKILLS, text)),
                 Len(Found(POWER_VERBS, text)),
                 IF jd = "" THEN [missing |-> <<>>, sg |-> <<>>]
                 ELSE JdKeywords(Missed(_jd_kws(jd, seed), text), _jd_kws(jd, seed)))

\* one tier of _content: the points and the suggestion of the first bound n meets
Tier(n, tiers, otherwise) ==
    LET met == {i \in 1..Len(tiers) : n >= tiers[i].least}
    IN  IF met = {} THEN otherwise ELSE tiers[SetMin(met)]

_content(text, data) ==
    LET parts == <<
            Tier(QUANTIFIERS(text),
                 <<[least |-> 5, pts |-> 30, sg |-> <<>>],
                   [least |-> 3, pts |-> 20,
                    sg |-> <<"Add more quantified achievements (%, $, numbers)">>],
                   [least |-> 1, pts |-> 10,
                    sg |-> <<"Quantify achievements with metrics">>]>>,
                 [pts |-> 0, sg |-> <<"Add specific numbers to your achievements">>]),
            Tier(Len(data.summary),
                 <<[least |-> 101, pts |-> 20, sg |-> <<>>],
                   [least |-> 51, pts |-> 10,
                    sg |-> <<"Expand your summary to 3-4 sentences">>]>>,
                 [pts |-> 0,
                  sg |-> <<"Write a compelling 3-4 sentence professional summary">>]),
            Tier(Len(data.skills),
                 <<[least |-> 10, pts |-> 25, sg |-> <<>>],
                   [least |-> 5, pts |-> 15,
                    sg |-> <<"Add more skills to strengthen your profile">>]>>,
                 [pts |-> 5, sg |-> <<"List at least 10 relevant skills">>]),
            Tier(Len(Found(POWER_VERBS, text)),
                 <<[least |-> 8, pts |-> 25, sg |-> <<>>],
                   [least |-> 5, pts |-> 15, sg |-> <<>>],
                   [least |-> 2, pts |-> 8, sg |-> <<>>]>>,
                 [pts |-> 0, sg |-> <<"Start bullet points with strong action verbs">>]) >>
    IN  [score |-> CapAt(100, <<SumOf([i \in 1..Len(parts) |-> parts[i].pts]), 1>>),
         sg |-> Concat([i \in 1..Len(parts) |-> parts[i].sg])]

\* the points of _format for the word count wc of the text
\* the points when only more than 300 and fewer than 900 words count
WordCountPointsInside(wc) ==
    IF 300 < wc /\ wc < 900 THEN [pts |-> 15, sg |-> <<>>]
    ELSE IF wc < 300
         THEN [pts |-> 0 - 10, sg |-> <<"Resume too short " \o EmDash \o " add more detail">>]
         ELSE [pts |-> 0, sg |-> <<>>]

WordCountPoints(wc) ==
    IF 300 <= wc /\ wc <= 900 THEN [pts |-> 15, sg |-> <<>>]
    ELSE IF wc < 300
         THEN [pts |-> 0 - 10, sg |-> <<"Resume too short " \o EmDash \o " add more detail">>]
         ELSE [pts |-> 0, sg |-> <<>>]

_format(data, full) ==
    LET mc == SelectSeq(<<"name", "email", "phone">>, LAMBDA f : ~Truthy(data, f))
        contact == IF mc # <<>>
                   THEN [pts |-> 0 - 10 * Len(mc),
                         sg |-> <<"Missing contact info: " \o Join(", ", mc)>>]
                   ELSE [pts |-> 15, sg |-> <<>>]
        linkedin == IF Truthy(data, "linkedin") THEN [pts |-> 10, sg |-> <<>>]
                    ELSE [pts |-> 0, sg |-> <<"Add your LinkedIn profile URL">>]
        words == WordCountPoints(WordCount(full))
        score == 60 + contact.pts + linkedin.pts + words.pts
    IN  [score |-> <<IF score > 100 THEN 100 ELSE IF score < 0 THEN 0 ELSE score, 1>>,
         sg |-> contact.sg \o linkedin.sg \o words.sg]

\* overall = sec_s*0.25 + kw_s*0.30 + con_s*0.25 + fmt_s*0.20, and with a job
\* description min(100, overall + _jd_match*10)
Overall(sec_s, kw_s, con_s, fmt_s, jd, match) ==
    LET overall == Plus(Plus(Frac(sec_s[1], sec_s[2] * 4), Frac(kw_s[1] * 3, kw_s[2] * 10)),
                        Plus(Frac(con_s[1], con_s[2] * 4), Frac(fmt_s[1], fmt_s[2] * 5)))
    IN  IF jd = "" THEN overall
        ELSE CapAt(100, Plus(overall, Frac(match[1] * 10, match[2])))

\* a variant of the report with the format stage first and nothing cut (C16
\* is checked against it)
ReportUncut(sec, kw, con, fmt, overall, full_lower) ==
    [overall_score |-> round(overall),
     keyword_score |-> round(kw.score),
     format_score |-> round(fmt.score),
     content_score |-> round(con.score),
     section_score |-> round(sec.score),
     suggestions |-> fmt.sg \o sec.sg \o kw.sg \o con.sg,
     missing_keywords |-> kw.missing,
     power_verb_count |-> Len(Found(POWER_VERBS, full_lower)),
     quantified_achievements |-> QUANTIFIERS(full_lower),
     source |-> "Built-in"]

\* the report of calculate, from the results of its four stages
Report(sec, kw, con, fmt, overall, full_lower) ==
    [overall_score |-> round(overall),
     keyword_score |-> round(kw.score),
     format_score |-> round(fmt.score),
     content_score |-> round(con.score),
     section_score |-> round(sec.score),
     suggestions |-> Take(sec.sg \o kw.sg \o con.sg \o fmt.sg, 8),
     missing_keywords |-> Take(kw.missing, 15),
     power_verb_count |-> Len(Found(POWER_VERBS, full_lower)),
     quantified_achievements |-> QUANTIFIERS(full_lower),
     source |-> "Built-in"]

Stages(sec, kw, con, fmt, full_lower, jd, seed) ==
    Report(sec, kw, con, fmt,
           Overall(sec.score, kw.score, con.score, fmt.score, jd,
                   IF jd = "" THEN <<0, 1>> ELSE _jd_match(full_lower, jd, seed)),
           full_lower)

Scored(data, full, full_lower, jd, seed) ==
    Stages(_sections(data), _keywords(full_lower, jd, seed), _content(full_lower, data),
           _format(data, full), full_lower, jd, seed)

\* _BuiltinScorer.calculate, in an interpreter process with the hash seed `seed`
calculate(data, raw_text, job_description, seed) ==
    Scored(data, _full_text(data, raw_text), Lower(_full_text(data, raw_text)),
           job_description, seed)

(***************************************************************************)
(* ATSScorer: the external scoring service                                 *)
(***************************************************************************)
\* The JSON values of a response: numbers, null, lists of strings, and
\* objects as lists of <<key, value>> pairs in the order of the document.
Num(n) == [t |-> "num", v |-> n]
Null == [t |-> "null"]
List(xs) == [t |-> "list", v |-> xs]
Dict(items) == [t |-> "dict", v |-> items]

\* what a request to the service comes to: an error (no connection, a timeout,
\* an HTTP error status, a body that is not JSON) or the JSON value of the body
ServiceReplies == <<
    [t |-> "error"],
    Dict(<<>>),
    Dict(<< <<"score", Num(0)>>, <<"suggestions", List(<<"Add metrics">>)>> >>),
    Dict(<< <<"score", Num(72)>>,
            <<"suggestions", List(<<"s1", "", "s2", "s3", "s4", "s5", "s6", "s7", "s8", "s9">>)>>,
            <<"missing_keywords", List([i \in 1..16 |-> "k" \o ToString(i)])>> >>),
    Dict(<< <<"data", Dict(<<
        <<"score", Num(85)>>,
        <<"sections", Dict(<<
            <<"skills", Dict(<< <<"score", Num(90)>>, <<"cons", List(<<"Few skills", "">>)>> >>)>>,
            <<"contact", Dict(<< <<"score", Num(0)>>, <<"cons", List(<<"No phone">>)>> >>)>>,
            <<"summary", List(<<"n/a">>)>> >>)>>,
        <<"suggestions", List(<<"No phone">>)>> >>)>> >>),
    Dict(<< <<"score", Num(150)>> >>),
    Dict(<< <<"score", Num(0 - 5)>>,
            <<"sections", Dict(<< <<"skills", Dict(<< <<"score", Num(250)>> >>)>> >>)>> >>),
    Dict(<< <<"score", Null>> >>),
    List(<<"busy">>),
    Dict(<< <<"data", List(<<"busy">>)>> >>),
    Dict(<< <<"score", Num(60)>>, <<"sections", List(<<"none">>)>> >>),
    Dict(<< <<"score", Num(64)>>,
            <<"sections", Dict(<< <<"experience", Dict(<< <<"score", Null>> >>)>> >>)>> >>) >>

\* requests.post(...), raise_for_status() and resp.json() in a try: {} on any error
review_resume(reply) == IF reply.t = "error" THEN Dict(<<>>) ELSE reply

\* d.get(key, default) for a JSON object d
Get(d, key, default) ==
    LET at == {i \in 1..Len(d.v) : d.v[i][1] = key}
    IN  IF at = {} THEN default ELSE d.v[SetMin(at)][2]

\* the truth of a JSON value
IsTrue(j) ==
    IF j.t = "null" THEN FALSE ELSE IF j.t = "num" THEN j.v # 0 ELSE j.v # <<>>

\* resp.get("data") or resp; `raised` when resp has no get (it is not an object)
DataOf(resp) ==
    IF resp.t # "dict" THEN [raised |-> TRUE]
    ELSE IF IsTrue(Get(resp, "data", Null))
         THEN [raised |-> FALSE, data |-> Get(resp, "data", Null)]
         ELSE [raised |-> FALSE, data |-> resp]

\* int(d.get("score", default)); `raised` when d has no get, or when the value
\* is not a number (null, a list, an object)
IntScore(d, default) ==
    IF d.t # "dict" \/ Get(d, "score", Num(default)).t # "num" THEN [raised |-> TRUE]
    ELSE [raised |-> FALSE, v |-> Get(d, "score", Num(default)).v]

\* the loop over sections.items(): the cons of the sections that are objects,
\* appended to suggestions unless empty or already there; `raised` when some
\* cons is not a list
RECURSIVE WithCons(_, _)
WithCons(suggestions, cons) ==
    IF Len(cons) = 0 THEN suggestions
    ELSE WithCons(IF /\ Head(cons) # ""
                     /\ \A j \in 1..Len(suggestions) : suggestions[j] # Head(cons)
                  THEN Append(suggestions, Head(cons)) ELSE suggestions,
                  Tail(cons))

AllCons(sections) ==
    Concat([i \in 1..Len(sections.v) |->
        IF sections.v[i][2].t = "dict"
        THEN Get(sections.v[i][2], "cons", List(<<>>)).v ELSE <<>>])

\* sec(key, default): the score of a section that is an object, else default
sec(sections, key, default) ==
    IF Get(sections, key, Dict(<<>>)).t = "dict"
    THEN IntScore(Get(sections, key, Dict(<<>>)), default)
    ELSE [raised |-> FALSE, v |-> default]

\* the dict _parse_magical_review returns when nothing has raised
Parsed(overall, sections, suggestions, missing_kw) ==
    IF \E k \in {"skills", "contact", "experience", "summary"} :
           sec(sections, k, overall).raised
    THEN None
    ELSE [overall_score |-> overall,
          keyword_score |-> sec(sections, "skills", overall).v,
          format_score |-> sec(sections, "contact", overall).v,
          content_score |-> sec(sections, "experience", overall).v,
          section_score |-> sec(sections, "summary", overall).v,
          suggestions |-> Take(NonEmpty(suggestions), 8),
          missing_keywords |-> Take(missing_kw, 15),
          power_verb_count |-> 0,
          quantified_achievements |-> 0,
          source |-> "MagicalAPI"]

\* the part of _parse_magical_review after `if overall == 0`, for the object data
ParseData(data, overall) ==
    IF \/ Get(data, "sections", Dict(<<>>)).t # "dict"
       \/ Get(data, "suggestions", List(<<>>)).t # "list"
       \/ Get(data, "missing_keywords", List(<<>>)).t # "list"
       \/ \E i \in 1..Len(Get(data, "sections", Dict(<<>>)).v) :
              LET s == Get(data, "sections", Dict(<<>>)).v[i][2]
              IN  s.t = "dict" /\ Get(s, "cons", List(<<>>)).t # "list"
    THEN None
    ELSE Parsed(overall, Get(data, "sections", Dict(<<>>)),
                WithCons(Get(data, "suggestions", List(<<>>)).v,
                         AllCons(Get(data, "sections", Dict(<<>>)))),
                Get(data, "missing_keywords", List(<<>>)).v)

\* a variant of _parse_magical_review without `if overall == 0: return None`
\* (C15 is checked against it)
ParseKeepsZero(resp) ==
    IF DataOf(resp).raised THEN None
    ELSE IF IntScore(DataOf(resp).data, 0).raised THEN None
    ELSE ParseData(DataOf(resp).data, IntScore(DataOf(resp).data, 0).v)

\* None: no usable result (a zero or absent score, or an exception)
_parse_magical_review(resp) ==
    IF DataOf(resp).raised THEN None
    ELSE IF IntScore(DataOf(resp).data, 0).raised THEN None
    ELSE IF IntScore(DataOf(resp).data, 0).v = 0 THEN None
    ELSE ParseData(DataOf(resp).data, IntScore(DataOf(resp).data, 0).v)

\* int(data.get("score", 0)) or None, None on an exception; None is 0 here, as
\* the caller only tests the truth of the result
_parse_magical_score(resp) ==
    IF DataOf(resp).raised THEN 0
    ELSE IF IntScore(DataOf(resp).data, 0).raised THEN 0
    ELSE IntScore(DataOf(resp).data, 0).v

\* the text sent when there are no resume bytes
_resume_to_text_bytes(data, raw_text) ==
    LET parts ==
            SelectSeq([i \in 1..6 |->
                    LET k == <<"name", "email", "phone", "linkedin", "location", "summary">>[i]
                    IN  IF Truthy(data, k) THEN data[k] ELSE ""],
                LAMBDA x : x # "")
            \o (IF Truthy(data, "skills")
                THEN <<"Skills: " \o Join(", ", data.skills)>> ELSE <<>>)
            \o NonEmpty(<<data.experience_text, data.education_text,
                          data.projects_text>>)
    IN  IF Join("\n", parts) # "" THEN Join("\n", parts) ELSE raw_text

\* the merge of the external result with the built-in one
Merged(magical_result, builtin_result, job_match_score) ==
    (IF job_match_score # 0 THEN [job_match_score |-> job_match_score] ELSE <<>>)
    @@ [builtin_score |-> builtin_result.overall_score,
        magical_score |-> magical_result.overall_score]
    @@ [k \in DOMAIN magical_result |->
           IF k \in {"keyword_score", "format_score", "content_score", "section_score"}
              /\ magical_result[k] = 0
           THEN builtin_result[k] ELSE magical_result[k]]

\* calculate_score after the built-in pass, with a key: review is the reply to
\* the review request, match the reply to the job-match request
External(builtin_result, job_description, review, match) ==
    IF _parse_magical_review(review_resume(review)) # None
    THEN Merged(_parse_magical_review(review_resume(review)), builtin_result,
                IF job_description # ""
                THEN _parse_magical_score(review_resume(match)) ELSE 0)
    ELSE [builtin_result EXCEPT !.source = "Built-in (MagicalAPI unavailable)"]

\* ATSScorer(key).calculate_score(...), given the report of the built-in engine
calculate_score(magical_api_key, builtin_result, job_description, review, match) ==
    IF Strip(magical_api_key) = "" THEN builtin_result
    ELSE External(builtin_result, job_description, review, match)

(***************************************************************************)
(* The scorer in a session (specification SpecScore)                       *)
(***************************************************************************)
LongWords == 300

\* n words
RECURSIVE Words(_)
Words(n) ==
    IF n = 0 THEN "" ELSE IF n = 1 THEN "w"
    ELSE Words(n \div 2) \o " " \o Words(n - n \div 2)

\* The records of the sessions: the records of Originals, a record with every
\* section filled, and a record of some 330 words.
ScoreHeap ==
    Originals \o <<
    [name |-> "Fay Gold", email |-> "fay@x.org", phone |-> "+1 555 0100",
     linkedin |-> "linkedin.com/in/fay", location |-> "Oslo",
     summary |-> "Engineer who led a team of 12, increased revenue by 20% and reduced "
                 \o "cost by $5 million; delivered 3x faster builds for 10+ services.",
     experience_text |-> "Built and launched Python services on AWS\nManaged Docker images",
     education_text |-> "", projects_text |-> "",
     skills |-> <<"Python", "Docker", "AWS", "SQL", "Git", "Linux", "Leadership",
                  "Communication", "Teamwork", "Mentoring">>,
     certifications |-> <<>>, experience_entries |-> <<>>, project_entries |-> <<>>,
     education_entries |-> <<[degree |-> "BSc", institution |-> ""]>>,
     full_text |-> ""],
    [name |-> "Gil Hart", email |-> "gil@x.org", phone |-> "+1 555 0101",
     linkedin |-> "", summary |-> "Developer.",
     experience_text |-> "Developed tools\n" \o Words(LongWords),
     education_text |-> "BSc 2015", projects_text |-> "",
     skills |-> <<"Python", "Git", "SQL", "Java", "Linux">>,
     certifications |-> <<>>, experience_entries |-> <<>>, project_entries |-> <<>>,
     full_text |-> ""] >>

\* the records the session scores and the records it enhances (the long
\* record is enhanced only, which bounds the work of a run)
ScoreRefs == RecordRefs \cup {NumOriginals + 1}
EnhancedRefs == {2, 4, NumOriginals + 2}

\* the text extracted from the uploaded document, or typed in
RawTexts(h, d) == {"Resume", _build_full_text(h, d)}

ScoreJobs == {"", "Senior Python developer for our Docker platform. Must know Kafka."}
MagicalKeys == {"", "  ", "mk-live"}
ResumeBytes == {"", "%PDF-1.4"}

\* the reply to request number i of ServiceReplies (0: no request is made)
ReplyAt(i) == IF i = 0 THEN [t |-> "error"] ELSE ServiceReplies[i]

\* the replies to the requests of one pass: <<review, job match>>
Requests(key, jd) ==
    IF Strip(key) = "" THEN {<<0, 0>>}
    ELSE {<<r, m>> : r \in 1..Len(ServiceReplies), m \in IF jd = "" THEN {0} ELSE {1, 4}}

\* the document calculate_score sends to the service
Sent(key, bytes, data, raw) ==
    IF Strip(key) = "" THEN ""
    ELSE IF bytes # "" THEN bytes ELSE _resume_to_text_bytes(data, raw)

InitScore ==
    /\ heap = ScoreHeap
    /\ resume_data \in ScoreRefs \cup EnhancedRefs
    /\ enhanced_data = 0
    /\ api_key = ""
    /\ openai_installed = FALSE
    /\ enhancer = NewEnhancer(api_key, openai_installed)
    /\ target_role = ""
    /\ ai_log = <<>>
    /\ quota_seen = FALSE
    /\ last = NoRequest
    /\ step = 2
    /\ rewrites = 0
    /\ skills_run = NoSkillsRun
    /\ bullets_run = NoBulletsRun
    /\ score_run = NoScoreRun
    /\ hash_seed \in HashSeeds
    /\ installed = Libraries
    /\ upload = NoUpload
    /\ walk = NoWalk
    /\ session = NoSession

\* the "Calculate ATS Score" button
CalculateScore ==
    /\ score_run.op = "none"
    /\ resume_data \in ScoreRefs
    /\ \E raw \in RawTexts(heap, resume_data), jd \in ScoreJobs :
        \E b \in {calculate(Deep(heap, resume_data), raw, jd, hash_seed)} :
            \E key \in MagicalKeys, bytes \in ResumeBytes :
                \E rq \in Requests(key, jd) :
                    score_run' = [NoScoreRun EXCEPT
                        !.op = "score", !.data = resume_data, !.raw_text = raw,
                        !.jd = jd, !.key = key,
                        !.sent = Sent(key, bytes, Deep(heap, resume_data), raw),
                        !.review = rq[1], !.match = rq[2], !.seeds = <<hash_seed>>,
                        !.builtin = b,
                        !.report = calculate_score(key, b, jd, ReplyAt(rq[1]), ReplyAt(rq[2]))]
    /\ step' = Max(step, 3)
    /\ UNCHANGED <<heap, resume_data, enhanced_data, enhancer, api_key, openai_installed,
                   target_role, ai_log, quota_seen, last, rewrites, skills_run,
                   bullets_run, hash_seed, installed, upload, walk, session>>

\* the server process is started again: a new interpreter, with its hash seed
Restart ==
    /\ score_run.op = "score"
    /\ Strip(score_run.key) = ""
    /\ hash_seed' \in HashSeeds \ {hash_seed}
    /\ step' = 2
    /\ UNCHANGED <<heap, resume_data, enhanced_data, enhancer, api_key, openai_installed,
                   target_role, ai_log, quota_seen, last, rewrites, skills_run,
                   bullets_run, score_run, installed, upload, walk, session>>

\* the button again, with the inputs of the pass before and no key: a second
\* pass of the built-in engine
ScoreAgain ==
    /\ score_run.op = "score"
    /\ Strip(score_run.key) = ""
    /\ \E b \in {calculate(Deep(heap, score_run.data), score_run.raw_text,
                           score_run.jd, hash_seed)} :
        score_run' = [score_run EXCEPT !.op = "again", !.previous = score_run.builtin,
                                       !.seeds = Append(@, hash_seed),
                                       !.builtin = b, !.report = b]
    /\ step' = Max(step, 3)
    /\ UNCHANGED <<heap, resume_data, enhanced_data, enhancer, api_key, openai_installed,
                   target_role, ai_log, quota_seen, last, rewrites, skills_run,
                   bullets_run, hash_seed, installed, upload, walk, session>>

\* the last statements of the "Enhance Resume" button: the score of the
\* enhanced record `data` with the original text and the enhanced text
\* together; the ghost variable keeps beside it the score with the enhanced
\* text alone
EnhancedScoreOf(enhanced, data, combined_text, jd) ==
    \E b \in {calculate(data, combined_text, jd, hash_seed)},
       alone \in {calculate(data, data.full_text, jd, hash_seed)} :
        \E key \in MagicalKeys, bytes \in ResumeBytes :
            \E rq \in Requests(key, jd) :
                score_run' = [NoScoreRun EXCEPT
                    !.op = "enhanced", !.data = enhanced, !.raw_text = combined_text,
                    !.jd = jd, !.key = key,
                    !.sent = Sent(key, bytes, data, combined_text),
                    !.review = rq[1], !.match = rq[2], !.seeds = <<hash_seed>>,
                    !.builtin = b,
                    !.report = calculate_score(key, b, jd, ReplyAt(rq[1]), ReplyAt(rq[2])),
                    !.alone = alone]

\* the "Enhance Resume" button
EnhancedScore ==
    /\ score_run.op = "none"
    /\ resume_data \in EnhancedRefs
    /\ \E role \in Roles, jd \in ScoreJobs :
        \E oracle \in Oracles(NewEnhancer(api_key, openai_installed), heap, resume_data) :
            \E res \in {enhance_resume(NewEnhancer(api_key, openai_installed),
                                       heap, resume_data, jd, role, oracle)} :
                /\ heap' = Merge(res.h, res.ref, resume_data)
                /\ enhanced_data' = res.ref
                /\ enhancer' = [NewEnhancer(api_key, openai_installed)
                                    EXCEPT !._quota_exceeded = res.quota]
                /\ target_role' = role
                /\ Request(NewEnhancer(api_key, openai_installed), resume_data, res)
                /\ \E original_text \in RawTexts(heap, resume_data),
                      data \in {Deep(Merge(res.h, res.ref, resume_data), res.ref)} :
                       EnhancedScoreOf(res.ref, data,
                                       original_text \o " " \o data.full_text, jd)
                /\ step' = Max(step, 4)
                /\ UNCHANGED <<resume_data, api_key, openai_installed, rewrites,
                               skills_run, bullets_run, hash_seed, installed, upload, walk, session>>

NextScore == CalculateScore \/ Restart \/ ScoreAgain \/ EnhancedScore

SpecScore == InitScore /\ [][NextScore]_vars

(***************************************************************************)
(* ResumeParser: the name heuristic                                        *)
(***************************************************************************)
Letters == UpperSet \cup LowerSet

\* the first index at or after i whose character is in cs (Len(s) + 1: none)
RECURSIVE FindIn(_, _, _)
FindIn(s, i, cs) ==
    IF i > Len(s) \/ Ch(s, i) \in cs THEN i ELSE FindIn(s, i + 1, cs)

\* s.split() from index i on: the whitespace-separated words
RECURSIVE WordsFrom(_, _)
WordsFrom(s, i) ==
    IF SkipRight(s, i, Whitespace) > Len(s) THEN <<>>
    ELSE <<SubSeq(s, SkipRight(s, i, Whitespace),
                  FindIn(s, SkipRight(s, i, Whitespace), Whitespace) - 1)>>
         \o WordsFrom(s, FindIn(s, SkipRight(s, i, Whitespace), Whitespace))

SplitWords(s) == WordsFrom(s, 1)

\* str.title(): a letter is upper-cased after a non-letter, lower-cased after
\* a letter
TitleChar(s, i) ==
    IF i > 1 /\ Ch(s, i - 1) \in Letters THEN LowerChar(Ch(s, i)) ELSE UpperChar(Ch(s, i))

\* the characters a..b of s.title()
RECURSIVE TitleRange(_, _, _)
TitleRange(s, a, b) ==
    IF a > b THEN ""
    ELSE IF a = b THEN TitleChar(s, a)
    ELSE TitleRange(s, a, (a + b) \div 2) \o TitleRange(s, (a + b) \div 2 + 1, b)

title(s) == TitleRange(s, 1, Len(s))

\* str.isupper(): some cased character, and none of them lower case
isupper(s) ==
    /\ \E i \in 1..Len(s) : Ch(s, i) \in UpperSet
    /\ \A i \in 1..Len(s) : Ch(s, i) \notin LowerSet

\* \b of the re module between the characters i - 1 and i of s
IsWord(s, i) == i >= 1 /\ i <= Len(s) /\ Ch(s, i) \in WordChar
Boundary(s, i) == IsWord(s, i - 1) # IsWord(s, i)

\* the first index at or after i where a match starts, for a pattern whose
\* match that starts at index j ends at ends[j] (0: no match starts there)
NextMatch(s, ends, i) == SetMin({j \in i..Len(s) : ends[j] # 0} \cup {Len(s) + 1})

\* re.sub(pattern, rep, s), from index i on; j is the start of the next match:
\* the matches are taken leftmost first and do not overlap
RECURSIVE SubFrom(_, _, _, _, _)
SubFrom(s, ends, rep, i, j) ==
    IF j > Len(s) THEN From(s, i)
    ELSE SubSeq(s, i, j - 1) \o rep
         \o SubFrom(s, ends, rep, ends[j] + 1, NextMatch(s, ends, ends[j] + 1))

\* re.sub(r'[<cs>]', rep, s)
RECURSIVE SubChars(_, _, _)
SubChars(s, cs, rep) ==
    IF Len(s) = 0 THEN ""
    ELSE IF Len(s) = 1 THEN (IF s \in cs THEN rep ELSE s)
    ELSE SubChars(SubSeq(s, 1, Len(s) \div 2), cs, rep)
         \o SubChars(From(s, Len(s) \div 2 + 1), cs, rep)

\* email_re = \b[\w._%+-]+@[\w.-]+\.[a-zA-Z]{2,}\b
LocalChars == WordChar \cup {".", "%", "+", "-"}
DomainChars == WordChar \cup {".", "-"}
MinTld == 2

\* The ends of the matches of \.[a-zA-Z]{2,}\b whose dot is at p, for the dots
\* p of the domain run a..d that leave a character of the run before them.
TldEnds(s, a, d) ==
    {SkipRight(s, p + 1, Letters) - 1 : p \in
        {q \in (a + 1)..d :
            /\ Ch(s, q) = "."
            /\ SkipRight(s, q + 1, Letters) - 1 - q >= MinTld
            /\ Boundary(s, SkipRight(s, q + 1, Letters))}}

SetMax(S) == CHOOSE i \in S : \A j \in S : i >= j

\* The end of the match of email_re that starts at i (0: none).  The local
\* part is the whole run of its class, which must stop at the '@' found at
\* index `at`; the domain backtracks from its whole run to the last dot that
\* a top-level name follows.
EmailEndAt(s, at) ==
    IF at > Len(s) \/ Ch(s, at) # "@" THEN 0
    ELSE IF TldEnds(s, at + 1, SkipRight(s, at + 1, DomainChars) - 1) = {} THEN 0
    ELSE SetMax(TldEnds(s, at + 1, SkipRight(s, at + 1, DomainChars) - 1))

EmailEnd(s, i) ==
    IF ~Boundary(s, i) \/ Ch(s, i) \notin LocalChars THEN 0
    ELSE EmailEndAt(s, SkipRight(s, i, LocalChars))

email_re(s) == [i \in 1..Len(s) |-> EmailEnd(s, i)]

\* a literal, then one character or more of cs, from index i (0: no match)
LiteralRunEnd(s, i, lit, cs) ==
    IF /\ StartsWithI(From(s, i), lit)
       /\ i + Len(lit) <= Len(s)
       /\ Ch(s, i + Len(lit)) \in cs
    THEN SkipRight(s, i + Len(lit), cs) - 1
    ELSE 0

\* linkedin_re = linkedin\.com/in/[\w\-]+ and github_re = github\.com/[\w\-/]+,
\* both compiled with re.I
linkedin_re(s) ==
    [i \in 1..Len(s) |-> LiteralRunEnd(s, i, "linkedin.com/in/", WordChar \cup {"-"})]
github_re(s) ==
    [i \in 1..Len(s) |-> LiteralRunEnd(s, i, "github.com/", WordChar \cup {"-", "/"})]

\* https?://\S+
UrlEnd(s, i, scheme) ==
    IF /\ StartsWith(From(s, i), scheme)
       /\ i + Len(scheme) <= Len(s)
       /\ Ch(s, i + Len(scheme)) \notin Whitespace
    THEN FindIn(s, i + Len(scheme), Whitespace) - 1
    ELSE 0

url_re(s) ==
    [i \in 1..Len(s) |->
        IF UrlEnd(s, i, "https://") # 0 THEN UrlEnd(s, i, "https://")
        ELSE UrlEnd(s, i, "http://")]

\* \b(Engineering|Location|...|India)\b under re.I: no word of the list starts
\* another, so at most one alternative matches at an index
PlaceWords ==
    <<"Engineering", "Location", "Mumbai", "Delhi", "Bangalore", "Vasai", "Thane",
      "Bhayadar", "India">>

PlaceEnd(s, i) ==
    IF \E k \in 1..Len(PlaceWords) :
           /\ Boundary(s, i)
           /\ StartsWithI(From(s, i), PlaceWords[k])
           /\ Boundary(s, i + Len(PlaceWords[k]))
    THEN i - 1 + Len(PlaceWords[CHOOSE k \in 1..Len(PlaceWords) :
                        /\ StartsWithI(From(s, i), PlaceWords[k])
                        /\ Boundary(s, i + Len(PlaceWords[k]))])
    ELSE 0

place_re(s) == [i \in 1..Len(s) |-> PlaceEnd(s, i)]

\* \S+\.\S+ : from a non-blank index i, up to the end of its word, when a dot
\* of the word has a character of the match on either side
DottedEnd(s, i) ==
    IF /\ Ch(s, i) \notin Whitespace
       /\ \E p \in (i + 1)..(FindIn(s, i, Whitespace) - 2) : Ch(s, p) = "."
    THEN FindIn(s, i, Whitespace) - 1
    ELSE 0

dotted_re(s) == [i \in 1..Len(s) |-> DottedEnd(s, i)]

skip_words ==
    {"resume", "cv", "profile", "summary", "education", "experience", "skills",
     "projects", "certifications", "contact", "objective", "professional"}
contact_sig == {"@", "github", "linkedin", "http", "www", ".com", ".in", "+91"}

is_contact(line) ==
    \/ \E s \in contact_sig : Contains(s, Lower(line))
    \/ Contains("|", line)
    \/ Contains(Bullet, line)

MinNameWords == 2
MaxNameWords == 4
NameChars == Letters \cup {"-", "'"}

NameShape(words) ==
    /\ MinNameWords <= Len(words) /\ Len(words) <= MaxNameWords
    /\ \A k \in 1..Len(words) : Lower(words[k]) \notin skip_words
    /\ \A k \in 1..Len(words) : \A i \in 1..Len(words[k]) : Ch(words[k], i) \in NameChars

is_name(token) == NameShape(SplitWords(Strip(token)))

Pass1Lines == 12
Pass2Lines == 5
NameCut == 50

\* Pass 1: the first of lines[:12] that is no contact line and has the shape
\* of a name
RECURSIVE Pass1(_, _)
Pass1(lines, i) ==
    IF i > Len(lines) \/ i > Pass1Lines THEN None
    ELSE IF ~is_contact(lines[i]) /\ is_name(lines[i])
         THEN [name |-> IF isupper(lines[i]) THEN title(lines[i]) ELSE lines[i]]
    ELSE Pass1(lines, i + 1)

\* the line of pass 2 after its six substitutions and ' '.join(cleaned.split())
Pass2Symbols == {"|", Bullet, ",", "+", "(", ")", "-", "/"} \cup DigitSet

SubAll(s, ends, rep) == SubFrom(s, ends, rep, 1, NextMatch(s, ends, 1))

SubEmail(s) == SubAll(s, email_re(s), "")
SubUrl(s) == SubAll(s, url_re(s), "")
SubGithub(s) == SubAll(s, github_re(s), "")
SubLinkedin(s) == SubAll(s, linkedin_re(s), "")
SubPlaces(s) == SubAll(s, place_re(s), "")

Cleaned(line) ==
    Join(" ", SplitWords(SubChars(
        SubPlaces(SubLinkedin(SubGithub(SubUrl(SubEmail(line))))), Pass2Symbols, " ")))

RECURSIVE Pass2(_, _)
Pass2(lines, i) ==
    IF i > Len(lines) \/ i > Pass2Lines THEN None
    ELSE IF is_name(Cleaned(lines[i])) THEN [name |-> title(Cleaned(lines[i]))]
    ELSE Pass2(lines, i + 1)

\* xs[-n:]
LastN(xs, n) == IF Len(xs) <= n THEN xs ELSE SubSeq(xs, Len(xs) - n + 1, Len(xs))

\* the words of pass 3: the text after the last '|' of the first line, less
\* its dotted words
last_seg(first) ==
    SplitWords(SubAll(Strip(Split(first, "|")[Len(Split(first, "|"))]),
                      dotted_re(Strip(Split(first, "|")[Len(Split(first, "|"))])), " "))

\* Pass 3: the last two words of last_seg, then its last three
RECURSIVE Pass3(_, _)
Pass3(words, ns) ==
    IF Len(ns) = 0 THEN None
    ELSE IF is_name(Join(" ", LastN(words, Head(ns))))
         THEN [name |-> title(Join(" ", LastN(words, Head(ns))))]
    ELSE Pass3(words, Tail(ns))

Windows == <<2, 3>>

First(lines) == IF Len(lines) > 0 THEN lines[1] ELSE ""

\* a variant of _extract_name_from_lines that tries pass 2 before pass 1
\* (C20 is checked against it)
NamePass2First(lines) ==
    IF Pass2(lines, 1) # None THEN Pass2(lines, 1).name
    ELSE IF Pass1(lines, 1) # None THEN Pass1(lines, 1).name
    ELSE IF Pass3(last_seg(First(lines)), Windows) # None
         THEN Pass3(last_seg(First(lines)), Windows).name
    ELSE Take(First(lines), NameCut)

_extract_name_from_lines(lines) ==
    IF Pass1(lines, 1) # None THEN Pass1(lines, 1).name
    ELSE IF Pass2(lines, 1) # None THEN Pass2(lines, 1).name
    ELSE IF Pass3(last_seg(First(lines)), Windows) # None
         THEN Pass3(last_seg(First(lines)), Windows).name
    ELSE Take(First(lines), NameCut)

(***************************************************************************)
(* ResumeParser: extraction from plain text (the PDF path)                 *)
(***************************************************************************)
\* pattern.search(s).group(), for a pattern given by the ends of its matches:
\* the leftmost match ("": none, which the callers leave as the field's '')
Starts(s, ends) == {i \in 1..Len(s) : ends[i] # 0}

Search(s, ends) ==
    IF Starts(s, ends) = {} THEN ""
    ELSE SubSeq(s, SetMin(Starts(s, ends)), ends[SetMin(Starts(s, ends))])

\* phone_re = [\+\(]?[\d][\d\s.\-\(\)]{7,}[\d]
PhoneChars == DigitSet \cup Whitespace \cup {".", "-", "(", ")"}
MinPhoneRun == 7
PhoneDigits == 10

\* the digits that can close a match whose first digit is at d: those of the
\* run of PhoneChars after d that leave seven characters of the run before them
PhoneClosers(s, d) ==
    {e \in (d + 1 + MinPhoneRun)..(SkipRight(s, d + 1, PhoneChars) - 1) :
        Ch(s, e) \in DigitSet}

PhoneEndAt(s, d) ==
    IF d > Len(s) \/ Ch(s, d) \notin DigitSet THEN 0
    ELSE IF PhoneClosers(s, d) = {} THEN 0
    ELSE SetMax(PhoneClosers(s, d))

phone_re(s) ==
    [i \in 1..Len(s) |-> PhoneEndAt(s, IF Ch(s, i) \in {"+", "("} THEN i + 1 ELSE i)]

\* re.sub(r'[^\d]', '', s)
DigitsOf(s) == SubChars(s, CharsOf(s) \ DigitSet, "")

\* the first PhoneDigits digits of a run, where PhoneOf keeps the last
PhoneHead(digits) ==
    IF Len(digits) >= PhoneDigits THEN SubSeq(digits, 1, PhoneDigits) ELSE ""

\* the phone field for the digits of the match: the last ten, when there are
\* ten or more
PhoneOf(digits) ==
    IF Len(digits) >= PhoneDigits
    THEN SubSeq(digits, Len(digits) - PhoneDigits + 1, Len(digits))
    ELSE ""

\* s[i], and "" past the end of s
At(s, i) == IF i >= 1 /\ i <= Len(s) THEN Ch(s, i) ELSE ""

\* (?:India|Maharashtra|[A-Z]{2})\b from index t: the alternatives in order
RegionEnd(s, t) ==
    IF StartsWith(From(s, t), "India") /\ Boundary(s, t + 5) THEN t + 4
    ELSE IF StartsWith(From(s, t), "Maharashtra") /\ Boundary(s, t + 11) THEN t + 10
    ELSE IF At(s, t) \in UpperSet /\ At(s, t + 1) \in UpperSet /\ Boundary(s, t + 2)
         THEN t + 1
    ELSE 0

\* ,\s*(?:India|Maharashtra|[A-Z]{2})\b from index c
CommaRegionEnd(s, c) ==
    IF At(s, c) = "," THEN RegionEnd(s, SkipRight(s, c + 1, Whitespace)) ELSE 0

\* \b([A-Z][a-z]+(?:\s[A-Z][a-z]+)?,\s*(?:India|Maharashtra|[A-Z]{2}))\b from
\* index i; w is the index after the first word.  A second word that matches
\* is part of the match: the comma cannot follow the first word then.
CityRegionAt(s, w) ==
    IF At(s, w) \in Whitespace /\ At(s, w + 1) \in UpperSet /\ At(s, w + 2) \in LowerSet
    THEN CommaRegionEnd(s, SkipRight(s, w + 2, LowerSet))
    ELSE CommaRegionEnd(s, w)

CityRegionEnd(s, i) ==
    IF Boundary(s, i) /\ Ch(s, i) \in UpperSet /\ At(s, i + 1) \in LowerSet
    THEN CityRegionAt(s, SkipRight(s, i + 1, LowerSet))
    ELSE 0

city_region_re(s) == [i \in 1..Len(s) |-> CityRegionEnd(s, i)]

\* \b(Bhayadar|Mumbai|...|Hyderabad)\b, case-sensitive
Cities ==
    <<"Bhayadar", "Mumbai", "Delhi", "Vasai", "Thane", "Pune", "Bangalore",
      "Bengaluru", "Hyderabad">>

CityEnd(s, i) ==
    IF \E k \in 1..Len(Cities) :
           /\ Boundary(s, i)
           /\ StartsWith(From(s, i), Cities[k])
           /\ Boundary(s, i + Len(Cities[k]))
    THEN i - 1 + Len(Cities[CHOOSE k \in 1..Len(Cities) :
                        /\ StartsWith(From(s, i), Cities[k])
                        /\ Boundary(s, i + Len(Cities[k]))])
    ELSE 0

city_re(s) == [i \in 1..Len(s) |-> CityEnd(s, i)]

\* the loop over the two location patterns
Location(text) ==
    IF Search(text, city_region_re(text)) # "" THEN Search(text, city_region_re(text))
    ELSE Search(text, city_re(text))

\* section_keywords, in the order of the dict
section_keywords ==
    <<[type |-> "summary",
       keywords |-> <<"summary", "objective", "profile", "about", "overview",
                      "professional summary">>],
      [type |-> "experience",
       keywords |-> <<"experience", "employment", "work history", "work experience",
                      "career">>],
      [type |-> "education",
       keywords |-> <<"education", "academic", "qualification", "degree">>],
      [type |-> "skills",
       keywords |-> <<"skills", "technical skills", "competencies", "expertise",
                      "technologies", "skills & expertise">>],
      [type |-> "projects",
       keywords |-> <<"projects", "portfolio", "achievements", "projects & achievements">>],
      [type |-> "certifications",
       keywords |-> <<"certifications", "certificates", "licenses", "credentials">>]>>

KeywordsOf(type) ==
    section_keywords[CHOOSE k \in 1..Len(section_keywords) :
                        section_keywords[k].type = type].keywords

all_kws ==
    UNION {{section_keywords[k].keywords[j] : j \in 1..Len(section_keywords[k].keywords)} :
            k \in 1..Len(section_keywords)}

\* line.lower().strip().rstrip(':')
HeaderKey(line) == RStripSet(Strip(Lower(line)), {":"})

MaxHeaderWords == 5
MaxHeaderLen == 40

is_header(line) ==
    \/ HeaderKey(line) \in all_kws
    \/ isupper(line) /\ 1 < WordCount(line) /\ WordCount(line) <= MaxHeaderWords
    \/ Len(line) > 0 /\ Ch(line, Len(line)) = ":" /\ Len(line) < MaxHeaderLen

\* sections[key] = content on a dict kept as the list of its items: a key
\* that is present keeps its place
Put(sections, key, content) ==
    IF \E k \in 1..Len(sections) : sections[k].name = key
    THEN [k \in 1..Len(sections) |->
             IF sections[k].name = key THEN [name |-> key, content |-> content]
             ELSE sections[k]]
    ELSE Append(sections, [name |-> key, content |-> content])

RECURSIVE SplitSections(_, _, _, _)
SplitSections(lines, sections, current, content) ==
    IF Len(lines) = 0 THEN Put(sections, current, content)
    ELSE IF is_header(Head(lines))
         THEN SplitSections(Tail(lines), Put(sections, current, content),
                            HeaderKey(Head(lines)), <<>>)
    ELSE SplitSections(Tail(lines), sections, current, Append(content, Head(lines)))

_split_sections_text(lines) == SplitSections(lines, <<>>, "header", <<>>)

\* any(kw in sec_name.lower() for kw in keywords)
OfType(type, sec_name) ==
    \E j \in 1..Len(KeywordsOf(type)) : Contains(KeywordsOf(type)[j], Lower(sec_name))

\* The sections that the loop assigns to the field of a type, in the order of
\* the dict: each assignment replaces the one before, so the last one stays.
Assigned(sections, type) == SelectSeq(sections, LAMBDA sct : OfType(type, sct.name))

\* '\n'.join(content).strip() of the last section of a type ("": no section)
Body(assigned) ==
    IF Len(assigned) = 0 THEN ""
    ELSE Strip(Join("\n", assigned[Len(assigned)].content))

\* [l for l in body.split('\n') if l.strip()]
CertificationLines(assigned) ==
    IF Len(assigned) = 0 THEN <<>>
    ELSE SelectSeq(Split(Body(assigned), "\n"), LAMBDA l : Strip(l) # "")

known ==
    <<"Python", "JavaScript", "TypeScript", "Java", "C++", "C#", "Go",
      "React", "Angular", "Vue", "Next.js", "Node.js", "Express",
      "Flutter", "Dart", "Android", "iOS", "Swift", "Kotlin",
      "Django", "Flask", "FastAPI", "Spring Boot",
      "SQL", "PostgreSQL", "MySQL", "MongoDB", "Redis", "Firebase",
      "AWS", "GCP", "Azure", "Docker", "Kubernetes", "Linux", "Git",
      "TensorFlow", "PyTorch", "Scikit-learn", "Pandas", "NumPy",
      "Machine Learning", "Deep Learning", "NLP", "LLM", "Generative AI",
      "LangChain", "Hugging Face", "RAG",
      "REST API", "GraphQL", "Microservices", "CI/CD", "Agile",
      "HTML", "CSS", "Tailwind", "Bootstrap">>

known_lower == [i \in 1..Len(known) |-> Lower(known[i])]

KnownAt(tl) ==
    SelectSeq([i \in 1..Len(known) |-> i], LAMBDA i : Contains(known_lower[i], tl))

KnownFrom(at) == [j \in 1..Len(at) |-> known[at[j]]]

KnownIn(tl) == KnownFrom(KnownAt(tl))

_fallback_skills(text) == KnownIn(Lower(text))

\* the skills of the record: those of the skills section, and the known
\* skills named anywhere in the text when that leaves none
SkillsOf(text, assigned) ==
    IF Len(assigned) > 0 /\ _parse_skills(Body(assigned)) # <<>>
    THEN _parse_skills(Body(assigned))
    ELSE _fallback_skills(text)

Extracted(text, lines, sections) ==
    [name |-> _extract_name_from_lines(lines),
     email |-> Search(text, email_re(text)),
     phone |-> PhoneOf(DigitsOf(Search(text, phone_re(text)))),
     linkedin |-> Search(text, linkedin_re(text)),
     github |-> Search(text, github_re(text)),
     website |-> Search(text, github_re(text)),
     location |-> Location(text),
     summary |-> Body(Assigned(sections, "summary")),
     skills |-> SkillsOf(text, Assigned(sections, "skills")),
     education_text |-> Body(Assigned(sections, "education")),
     experience_text |-> Body(Assigned(sections, "experience")),
     projects_text |-> Body(Assigned(sections, "projects")),
     certifications |-> CertificationLines(Assigned(sections, "certifications"))]

\* [l.strip() for l in text.split('\n') if l.strip()]
TextLines(text) == StripAll(Split(text, "\n"))

_extract_from_text(text) ==
    Extracted(text, TextLines(text), _split_sections_text(TextLines(text)))

(***************************************************************************)
(* ResumeParser: the two entry points, and the upload handler              *)
(* (specification SpecParser)                                              *)
(*                                                                         *)
(* An uploaded file is its name, whether the document libraries can open   *)
(* it, and the text they extract from it when they can.  A file they       *)
(* cannot open (a corrupt document, or one of another format) makes the    *)
(* library that is asked raise its own error; which libraries can be       *)
(* imported is fixed when the interpreter starts.                          *)
(***************************************************************************)
\* the outcome of a call: a value the caller receives, or an exception that
\* reaches the caller
Raised(error) == [raised |-> TRUE, error |-> error]
PdfText(text) == [raised |-> FALSE, text |-> text]
Outcome(data, text) == [raised |-> FALSE, data |-> data, text |-> text]

\* str(e) of the error that a library raises on a file it cannot open
OpenError ==
    [pdfplumber |-> "No /Root object! - Is this really a PDF?",
     PyPDF2 |-> "EOF marker not found",
     docx |-> "File is not a zip file"]

\* str(e) of the ImportError of a library that is not installed
ImportError(library) == "No module named '" \o library \o "'"

\* The first try block has `except ImportError` only: an error that
\* pdfplumber raises on the file is no ImportError and leaves the function.
\* The second try block turns every error, the ImportError of PyPDF2
\* included, into the text.
_extract_pdf_text(file_bytes, libraries) ==
    IF "pdfplumber" \in libraries
    THEN (IF file_bytes.opens THEN PdfText(file_bytes.text) ELSE Raised(OpenError.pdfplumber))
    ELSE IF "PyPDF2" \notin libraries
         THEN PdfText("(PDF parse error: " \o ImportError("PyPDF2") \o ")")
    ELSE IF file_bytes.opens THEN PdfText(file_bytes.text)
    ELSE PdfText("(PDF parse error: " \o OpenError.PyPDF2 \o ")")

\* parse_pdf has no try block of its own
PdfOf(extracted) ==
    IF extracted.raised THEN extracted
    ELSE Outcome(_extract_from_text(extracted.text), extracted.text)

parse_pdf(file_bytes, libraries) == PdfOf(_extract_pdf_text(file_bytes, libraries))

MinimalRecord == [name |-> "", email |-> "", summary |-> "", skills |-> <<>>]

\* parse_docx on a file that python-docx cannot open: the import or
\* Document(...) raises inside the try block
parse_docx(file_bytes, libraries) ==
    IF "docx" \notin libraries THEN Outcome(MinimalRecord, ImportError("docx"))
    ELSE Outcome(MinimalRecord, OpenError.docx)

\* str.endswith
EndsWith(s, p) == Len(s) >= Len(p) /\ SubSeq(s, Len(s) - Len(p) + 1, Len(s)) = p

\* the texts of the readable PDF files
Filler == "a1\na2\na3\na4"
PdfTexts ==
    {"",
     "John Smith\njohn@example.com | +91 9876543210\nExperience",
     "John Smith\njohn@example.com | +91 9876543210\nExperience\nBuilt APIs in Python\nSkills\nPython, Go",
     "JOHN SMITH\nPune, India\nSUMMARY:\nEngineer with Docker and AWS",
     "john smith\nx@y.co",
     "JEAN-LUC O'NEIL\n(022) 2345-6789",
     "Resume\njohn@example.com | John Smith\nMumbai",
     "Mumbai 400001 JOHN smith\nJane Doe",
     "github.com/jo | www.jo.dev Resume DHRUV BHANUSHALI",
     "https://jo.dev Profile of: Jo\nEducation\nBSc 2019",
     "Curriculum vitae of John Smith, senior engineer at Example Corp since 2019",
     Filler \o "\na5\na6\na7\na8\na9\na10\na11\nAnn Lee",
     Filler \o "\na5\na6\na7\na8\na9\na10\na11\na12\nAnn Lee",
     Filler \o "\nAnn Lee | x@y.co",
     Filler \o "\na5\nAnn Lee | x@y.co",
     "Ann Lee\n+91 98765 43210 | ann@x.org | linkedin.com/in/ann-lee\nThane, Maharashtra\n"
        \o "SUMMARY:\nEngineer.\nSkills:\nPython, Docker\nCertifications\nAWS Certified",
     "Work Experience\nAcme | Developer\n~ Built tools\nProjects\nResume tool"}

\* the files of the uploader: readable PDF files, and files of either name
\* that no library can open
Uploads ==
    {[filename |-> n, opens |-> TRUE, text |-> t] : n \in {"cv.pdf", "CV.PDF"}, t \in PdfTexts}
    \cup {[filename |-> n, opens |-> FALSE, text |-> ""] :
             n \in {"cv.pdf", "scan.Pdf", "cv.docx", "notes.pdf.docx"}}

InitParser ==
    /\ heap = Originals
    /\ resume_data = 0
    /\ enhanced_data = 0
    /\ api_key = ""
    /\ openai_installed = FALSE
    /\ enhancer = NewEnhancer("", openai_installed)
    /\ target_role = ""
    /\ ai_log = <<>>
    /\ quota_seen = FALSE
    /\ last = NoRequest
    /\ step = 1
    /\ rewrites = 0
    /\ skills_run = NoSkillsRun
    /\ bullets_run = NoBulletsRun
    /\ score_run = NoScoreRun
    /\ hash_seed = 0
    /\ installed \in SUBSET Libraries
    /\ upload = NoUpload
    /\ walk = NoWalk
    /\ session = NoSession

\* what the handler holds after the call of the parser: parsed_data and
\* raw_text, or the error that ended the run of the script
Uploaded(op, file, outcome) ==
    IF outcome.raised
    THEN [op |-> op, file |-> file, raised |-> TRUE, error |-> outcome.error,
          parsed_data |-> None, raw_text |-> ""]
    ELSE [op |-> op, file |-> file, raised |-> FALSE, error |-> "",
          parsed_data |-> outcome.data, raw_text |-> outcome.text]

\* The upload branch: a file is chosen, and parsed by its name.  Each run
\* makes a new ResumeParser and depends on the file and the libraries alone,
\* so a behaviour has one upload.
Upload ==
    /\ upload.op = "none"
    /\ \E file \in Uploads :
        upload' = IF EndsWith(Lower(file.filename), ".pdf")
                  THEN Uploaded("pdf", file, parse_pdf(file, installed))
                  ELSE Uploaded("docx", file, parse_docx(file, installed))
    /\ UNCHANGED <<heap, resume_data, enhanced_data, enhancer, api_key, openai_installed,
                   target_role, ai_log, quota_seen, last, step, rewrites, skills_run,
                   bullets_run, score_run, hash_seed, installed, walk, session>>

NextParser == Upload

SpecParser == InitParser /\ [][NextParser]_vars

(***************************************************************************)
(* ResumeParser: the contact line, and the walk over the styled paragraphs *)
(* of a DOCX document                                                      *)
(***************************************************************************)
\* \+?\d[\d\s\-\(\)]{6,}
PhoneLikeChars == DigitSet \cup Whitespace \cup {"-", "(", ")"}
MinPhoneLikeRun == 6

PhoneLikeEndAt(s, d) ==
    IF d > Len(s) \/ Ch(s, d) \notin DigitSet THEN 0
    ELSE IF SkipRight(s, d + 1, PhoneLikeChars) - 1 - d >= MinPhoneLikeRun
         THEN SkipRight(s, d + 1, PhoneLikeChars) - 1
    ELSE 0

phone_like_re(s) ==
    [i \in 1..Len(s) |-> PhoneLikeEndAt(s, IF Ch(s, i) = "+" THEN i + 1 ELSE i)]

SubPhone(s) == SubAll(s, phone_re(s), "")
SubPhoneLike(s) == SubAll(s, phone_like_re(s), "")

\* the line without its contact tokens, its separators and its phone-like
\* fragments, with single blanks
ContactCleaned(line) ==
    Join(" ", SplitWords(SubPhoneLike(SubChars(
        SubGithub(SubLinkedin(SubPhone(SubEmail(line)))), {Bullet, "|", ","}, " "))))

\* `if m: data[k] = m.group()`: the match, and the old value without one
Matched(found, old) == IF found # "" THEN found ELSE old

MinLocationLen == 2

_parse_contact_line(line, data) ==
    [data EXCEPT
        !.email = Matched(Search(line, email_re(line)), @),
        !.phone = Matched(PhoneOf(DigitsOf(Search(line, phone_re(line)))), @),
        !.linkedin = Matched(Search(line, linkedin_re(line)), @),
        !.github = Matched(Search(line, github_re(line)), @),
        !.website = Matched(Search(line, github_re(line)), @),
        !.location = IF Len(ContactCleaned(line)) > MinLocationLen
                     THEN ContactCleaned(line) ELSE @]

\* the first section type, in the order of section_keywords, one of whose
\* keywords is in the lower-cased heading; the lower-cased heading without one
RECURSIVE ClassifyFrom(_, _, _)
ClassifyFrom(heading_text, ht, k) ==
    IF k > Len(section_keywords) THEN Lower(heading_text)
    ELSE IF \E j \in 1..Len(section_keywords[k].keywords) :
                Contains(section_keywords[k].keywords[j], ht)
         THEN section_keywords[k].type
    ELSE ClassifyFrom(heading_text, ht, k + 1)

\* the lowercased heading, whatever it holds
Unclassified(heading_text) == Lower(heading_text)

_classify_section(heading_text) == ClassifyFrom(heading_text, Strip(Lower(heading_text)), 1)

\* the record that _extract_from_docx starts from
EmptyParsed ==
    [name |-> "", email |-> "", phone |-> "", linkedin |-> "", github |-> "",
     website |-> "", location |-> "", summary |-> "", skills |-> <<>>,
     education_text |-> "", experience_text |-> "", projects_text |-> "",
     certifications |-> <<>>]

\* para.style.name.lower() if para.style else 'normal' ("": no style)
StyleOf(para) == IF para.style = "" THEN "normal" ELSE Lower(para.style)

NewEntry(duration) ==
    [duration |-> duration, title |-> "", company |-> "", responsibilities |-> <<>>]

\* the locals of _extract_from_docx before the loop
WalkStart ==
    [data |-> EmptyParsed, sections |-> <<>>, current_section |-> "header",
     current_lines |-> <<>>, exp_entries |-> <<>>, current_exp |-> None,
     full_text_parts |-> <<>>]

\* exp_entries when the open entry is dropped
Dropped(w) == w.exp_entries

\* exp_entries after `if current_exp: exp_entries.append(current_exp)`
Flushed(w) ==
    IF w.current_exp # None THEN Append(w.exp_entries, w.current_exp) ELSE w.exp_entries

\* a Heading 1 with the text `text`, classified as `section`
Heading1(w, section) ==
    IF w.current_exp # None /\ section # "experience"
    THEN [w EXCEPT !.sections = Put(@, w.current_section, w.current_lines),
                   !.current_section = section, !.current_lines = <<>>,
                   !.exp_entries = Flushed(w), !.current_exp = None]
    ELSE [w EXCEPT !.sections = Put(@, w.current_section, w.current_lines),
                   !.current_section = section, !.current_lines = <<>>]

\* the entry after a Heading 3 with the text `text`
Heading3(exp, text) ==
    IF Contains("|", text)
    THEN [exp EXCEPT !.title = Strip(SubSeq(text, 1, IndexOf(text, "|", 1) - 1)),
                     !.company = Strip(From(text, IndexOf(text, "|", 1) + 1))]
    ELSE [exp EXCEPT !.title = Strip(text)]

\* one pass of the loop for a paragraph of a style and a non-empty text
Styled(w, style, text) ==
    IF Contains("title", style) /\ ~Contains("subtitle", style)
    THEN [w EXCEPT !.data.name = IF isupper(text) THEN title(text) ELSE text]
    ELSE IF Contains("subtitle", style)
    THEN [w EXCEPT !.data = _parse_contact_line(text, @)]
    ELSE IF Contains("heading 1", style)
    THEN Heading1(w, _classify_section(text))
    ELSE IF Contains("heading 2", style) /\ w.current_section = "experience"
    THEN [w EXCEPT !.exp_entries = Flushed(w), !.current_exp = NewEntry(text)]
    ELSE IF Contains("heading 3", style) /\ w.current_section = "experience"
    THEN [w EXCEPT !.current_exp =
                      Heading3(IF @ = None THEN NewEntry("") ELSE @, text)]
    ELSE IF w.current_section = "experience" /\ w.current_exp # None
    THEN [w EXCEPT !.current_exp.responsibilities = Append(@, text)]
    ELSE [w EXCEPT !.current_lines = Append(@, text)]

\* one pass of the loop: a paragraph without text is passed over
Paragraph(w, para) ==
    IF Strip(para.text) = "" THEN w
    ELSE Styled([w EXCEPT !.full_text_parts = Append(@, Strip(para.text))],
                StyleOf(para), Strip(para.text))

\* the header line of an entry alone
HeaderOnly(exp) ==
    IF exp.company # ""
    THEN exp.title \o " | " \o exp.company \o " (" \o exp.duration \o ")"
    ELSE exp.title \o " (" \o exp.duration \o ")"

\* the header line and the bullet lines of an entry, joined
Rendered(exp) ==
    Join("\n",
         <<IF exp.company # ""
           THEN exp.title \o " | " \o exp.company \o " (" \o exp.duration \o ")"
           ELSE exp.title \o " (" \o exp.duration \o ")">>
         \o [i \in 1..Len(exp.responsibilities) |-> Bullet \o " " \o exp.responsibilities[i]])

\* '\n'.join(lines).strip() of a section type ("": the dict has no such key)
SectionBody(sections, type) ==
    IF \E k \in 1..Len(sections) : sections[k].name = type
    THEN Strip(Join("\n", sections[CHOOSE k \in 1..Len(sections) :
                                      sections[k].name = type].content))
    ELSE ""

\* the loop over sections.items(): a section with an empty body sets nothing
Mapped(data, sections) ==
    [data EXCEPT
        !.summary = Matched(SectionBody(sections, "summary"), @),
        !.education_text = Matched(SectionBody(sections, "education"), @),
        !.projects_text = Matched(SectionBody(sections, "projects"), @),
        !.skills = IF SectionBody(sections, "skills") # ""
                   THEN _parse_skills(SectionBody(sections, "skills")) ELSE @,
        !.certifications =
            IF SectionBody(sections, "certifications") # ""
            THEN SelectSeq(Split(SectionBody(sections, "certifications"), "\n"),
                           LAMBDA l : Strip(l) # "")
            ELSE @]

\* the fallbacks for the skills and for the name
WithFallbacks(data, full_text_parts) ==
    [data EXCEPT
        !.skills = IF @ = <<>> THEN _fallback_skills(Join("\n", full_text_parts)) ELSE @,
        !.name = IF @ = "" THEN _extract_name_from_lines(full_text_parts) ELSE @]

\* the record with its experience: the text from the entries, and the entries
WithExperience(data, exp_entries) ==
    [k \in DOMAIN data \cup {"experience_entries"} |->
        IF k = "experience_entries" THEN exp_entries
        ELSE IF k = "experience_text"
             THEN Join("\n\n", [i \in 1..Len(exp_entries) |-> Rendered(exp_entries[i])])
        ELSE data[k]]

\* what _extract_from_docx does after the loop, on the locals w
AfterLoop(w) ==
    WithFallbacks(
        Mapped(WithExperience(w.data, Flushed(w)),
               Put(w.sections, w.current_section, w.current_lines)),
        w.full_text_parts)

RECURSIVE Walk(_, _)
Walk(w, paragraphs) ==
    IF Len(paragraphs) = 0 THEN w ELSE Walk(Paragraph(w, Head(paragraphs)), Tail(paragraphs))

\* data and full_text of _extract_from_docx
_extract_from_docx(paragraphs) ==
    [data |-> AfterLoop(Walk(WalkStart, paragraphs)),
     text |-> Join("\n", Walk(WalkStart, paragraphs).full_text_parts)]

(***************************************************************************)
(* A readable DOCX document in the upload handler (specification SpecDocx) *)
(*                                                                         *)
(* The document is revealed one paragraph at a time: a step of the model   *)
(* is one pass of the loop of _extract_from_docx, and the end of the       *)
(* document runs the rest of the function and returns to the handler.      *)
(* The paragraphs of a document come from one of a few small vocabularies. *)
(* Beside the locals w of the function, walk keeps what the properties     *)
(* speak of: the paragraphs taken so far, the positions of the paragraphs  *)
(* that opened an experience entry, the position of the last Heading 1,    *)
(* and for each body paragraph its position, its section and its heading.  *)
(***************************************************************************)
MaxParagraphs == 4

P(style, text) == [style |-> style, text |-> text]

Vocabularies ==
    <<{P("Heading 1", "Work Experience"), P("Heading 2", "2020 - 2022"),
       P("Heading 3", "Developer | Acme"), P("Normal", "Built APIs in Python")},
      {P("Heading 1", "Experience"), P("Heading 1", "Education"),
       P("Heading 2", "2019"), P("Heading 3", "Intern")},
      {P("Heading 1", "Experience"), P("Heading 1", "Projects"),
       P("Heading 2", "2021"), P("List Bullet", "~ Led a team of 5")},
      {P("Heading 1", "Professional Summary"), P("Heading 1", "Projects"),
       P("Normal", "Built a resume tool"), P("", " Engineer with Go. ")},
      {P("Heading 1", "Career Objective"), P("Heading 1", "Skills Summary"),
       P("Heading 1", "Hobbies"), P("Normal", "Python, Docker")},
      {P("Heading 1", "Certifications"), P("Heading 1", "Academic Projects"),
       P("Normal", "AWS Certified"), P("Normal", "  ")},
      {P("Title", "JOHN SMITH"),
       P("Subtitle", "john@example.com | +91 9876543210 | Pune, India"),
       P("Subtitle", "tel 2345-6789"), P("Subtitle", "+1 555 010 0199 22")},
      {P("Subtitle", "linkedin.com/in/jo-s ~ github.com/jo/re"),
       P("Subtitle", "x@y.co, tel. 98765 43210"), P("Normal", "Jane Doe"),
       P("Heading 1", "Contact")}>>

DocxFile == [filename |-> "cv.docx", opens |-> TRUE, text |-> ""]

InitDocx ==
    /\ heap = Originals
    /\ resume_data = 0
    /\ enhanced_data = 0
    /\ api_key = ""
    /\ openai_installed = FALSE
    /\ enhancer = NewEnhancer("", openai_installed)
    /\ target_role = ""
    /\ ai_log = <<>>
    /\ quota_seen = FALSE
    /\ last = NoRequest
    /\ step = 1
    /\ rewrites = 0
    /\ skills_run = NoSkillsRun
    /\ bullets_run = NoBulletsRun
    /\ score_run = NoScoreRun
    /\ hash_seed = 0
    /\ installed = Libraries
    /\ upload = NoUpload
    /\ walk = NoWalk
    /\ session = NoSession

docxFrame ==
    <<heap, resume_data, enhanced_data, enhancer, api_key, openai_installed, target_role,
      ai_log, quota_seen, last, step, rewrites, skills_run, bullets_run, score_run,
      hash_seed, installed, session>>

\* whether the paragraph opens an experience entry, on the locals w before it:
\* a Heading 2 in the experience section, or a Heading 3 there with no entry
\* open
Opens(w, para) ==
    /\ Strip(para.text) # ""
    /\ ~Contains("title", StyleOf(para))
    /\ ~Contains("heading 1", StyleOf(para))
    /\ w.current_section = "experience"
    /\ \/ Contains("heading 2", StyleOf(para))
       \/ Contains("heading 3", StyleOf(para)) /\ w.current_exp = None

\* whether the paragraph is a Heading 1 the loop takes as one
IsHeading1(para) ==
    /\ Strip(para.text) # ""
    /\ ~Contains("title", StyleOf(para))
    /\ Contains("heading 1", StyleOf(para))

\* whether the paragraph reaches the last branch of the loop, on the locals
\* w before it: a body paragraph
IsBody(w, para) ==
    /\ Strip(para.text) # ""
    /\ ~Contains("title", StyleOf(para))
    /\ ~Contains("heading 1", StyleOf(para))
    /\ ~(w.current_section = "experience"
          /\ (Contains("heading 2", StyleOf(para)) \/ Contains("heading 3", StyleOf(para))))

\* the upload branch up to the loop of _extract_from_docx: python-docx opens
\* the file
OpenDocument ==
    /\ walk.pc = "idle"
    /\ upload.op = "none"
    /\ "docx" \in installed
    /\ \E v \in 1..Len(Vocabularies) :
        walk' = [pc |-> "loop", vocabulary |-> v, paragraphs |-> <<>>, w |-> WalkStart,
                 opened |-> <<>>, heading |-> 0, bodies |-> <<>>]
    /\ UNCHANGED <<upload>>
    /\ UNCHANGED docxFrame

\* one pass of the loop, for the next paragraph of the document
NextParagraph ==
    /\ walk.pc = "loop"
    /\ Len(walk.paragraphs) < MaxParagraphs
    /\ \E para \in Vocabularies[walk.vocabulary] :
        walk' = [walk EXCEPT
                    !.paragraphs = Append(@, para),
                    !.w = Paragraph(@, para),
                    !.opened = IF Opens(walk.w, para) THEN Append(@, Len(walk.paragraphs) + 1)
                               ELSE @,
                    !.heading = IF IsHeading1(para) THEN Len(walk.paragraphs) + 1 ELSE @,
                    !.bodies = IF IsBody(walk.w, para)
                               THEN Append(@, [at |-> Len(walk.paragraphs) + 1,
                                               heading |-> walk.heading,
                                               section |-> walk.w.current_section,
                                               entry |-> walk.w.current_exp # None
                                                         /\ walk.w.current_section = "experience"])
                               ELSE @]
    /\ UNCHANGED <<upload>>
    /\ UNCHANGED docxFrame

\* the end of the document: the rest of _extract_from_docx, and the return
\* of parse_docx to the handler
EndOfDocument ==
    /\ walk.pc = "loop"
    /\ walk' = [walk EXCEPT !.pc = "done"]
    /\ upload' = Uploaded("docx", DocxFile,
                          Outcome(AfterLoop(walk.w), Join("\n", walk.w.full_text_parts)))
    /\ UNCHANGED docxFrame

NextDocx == OpenDocument \/ NextParagraph \/ EndOfDocument

SpecDocx == InitDocx /\ [][NextDocx]_vars

(***************************************************************************)
(* The AI path on records of both origins (specification SpecGpt)          *)
(*                                                                         *)
(* _gpt_enhance is run once on a record saved from the manual form, whose  *)
(* entries hold the text of a form field, or on a record of the parser,    *)
(* whose entries hold lists of lines.                                      *)
(***************************************************************************)
GptOriginals == <<
    [EmptyResume EXCEPT !.name = "Flo Gray", !.summary = "Engineer.",
        !.experience_text = "Developer at Acme (2021)\n~ Built APIs",
        !.skills = <<"Python">>, !.experience_entries = <<3, 4>>],
    [EmptyResume EXCEPT !.name = "Di Eri", !.summary = "Engineer.",
        !.projects_text = "Made a resume tool", !.skills = <<"Go">>,
        !.experience_entries = <<5>>],
    [title |-> "Developer", company |-> "Acme", duration |-> "2021", location |-> "Pune",
        responsibilities |-> "~ Built APIs", resp_is_str |-> TRUE],
    [title |-> "Intern", company |-> "", duration |-> "2019", location |-> "",
        responsibilities |-> "", resp_is_str |-> TRUE],
    [title |-> "Developer", company |-> "Acme", duration |-> "2020-2022",
        responsibilities |-> <<"Was responsible for 3 services", "~ helped with code reviews">>] >>

GptRecords == {1, 2}

InitGpt ==
    /\ heap = GptOriginals
    /\ resume_data = 0
    /\ enhanced_data = 0
    /\ api_key = "sk-test"
    /\ openai_installed = TRUE
    /\ enhancer = NewEnhancer(api_key, openai_installed)
    /\ target_role = ""
    /\ ai_log = <<>>
    /\ quota_seen = FALSE
    /\ last = NoRequest
    /\ step = 1
    /\ rewrites = 0
    /\ skills_run = NoSkillsRun
    /\ bullets_run = NoBulletsRun
    /\ score_run = NoScoreRun
    /\ hash_seed = 0
    /\ installed = Libraries
    /\ upload = NoUpload
    /\ walk = NoWalk
    /\ session = NoSession

\* _gpt_enhance(data, jd, role, level, options), the external client answering
\* each sub-call as the oracle says
GptEnhance ==
    /\ last.path = "none"
    /\ \E data \in GptRecords :
        \E oracle \in [1..NumSubCalls(heap, data) -> Outcomes] :
            \E res \in {_gpt_enhance(heap, data, JobDescription, target_role, oracle, FALSE)} :
                /\ heap' = res.h
                /\ resume_data' = data
                /\ enhanced_data' = res.ref
                /\ ai_log' = res.log
                /\ quota_seen' = res.quota
                /\ last' = [NoRequest EXCEPT !.input = data,
                                             !.path = IF res.raised THEN "raised" ELSE "ai"]
                /\ UNCHANGED <<enhancer, api_key, openai_installed, target_role, step,
                               rewrites, skills_run, bullets_run, score_run, hash_seed,
                               installed, upload, walk, session>>

NextGpt == GptEnhance

SpecGpt == InitGpt /\ [][NextGpt]_vars

(***************************************************************************)
(* The format stage on bounded inputs (specification SpecFormat)           *)
(***************************************************************************)
\* the records: every choice of present and missing contact fields
FormatHeap ==
    <<[name |-> "", email |-> "", phone |-> "", linkedin |-> ""],
      [name |-> "", email |-> "", phone |-> "", linkedin |-> "linkedin.com/in/a"],
      [name |-> "", email |-> "", phone |-> "9876543210", linkedin |-> ""],
      [name |-> "", email |-> "", phone |-> "9876543210", linkedin |-> "linkedin.com/in/a"],
      [name |-> "", email |-> "a@x.org", phone |-> "", linkedin |-> ""],
      [name |-> "", email |-> "a@x.org", phone |-> "", linkedin |-> "linkedin.com/in/a"],
      [name |-> "", email |-> "a@x.org", phone |-> "9876543210", linkedin |-> ""],
      [name |-> "", email |-> "a@x.org", phone |-> "9876543210",
       linkedin |-> "linkedin.com/in/a"],
      [name |-> "Ann Lee", email |-> "", phone |-> "", linkedin |-> ""],
      [name |-> "Ann Lee", email |-> "", phone |-> "", linkedin |-> "linkedin.com/in/a"],
      [name |-> "Ann Lee", email |-> "", phone |-> "9876543210", linkedin |-> ""],
      [name |-> "Ann Lee", email |-> "", phone |-> "9876543210",
       linkedin |-> "linkedin.com/in/a"],
      [name |-> "Ann Lee", email |-> "a@x.org", phone |-> "", linkedin |-> ""],
      [name |-> "Ann Lee", email |-> "a@x.org", phone |-> "", linkedin |-> "linkedin.com/in/a"],
      [name |-> "Ann Lee", email |-> "a@x.org", phone |-> "9876543210", linkedin |-> ""],
      [name |-> "Ann Lee", email |-> "a@x.org", phone |-> "9876543210",
       linkedin |-> "linkedin.com/in/a"]>>

\* the lengths of the combined text, in words: around both limits
FormatWords == {0, 1, 299, 300, 301, 899, 900, 901}

InitFormat ==
    /\ heap = FormatHeap
    /\ resume_data \in 1..Len(FormatHeap)
    /\ enhanced_data = 0
    /\ api_key = ""
    /\ openai_installed = FALSE
    /\ enhancer = NewEnhancer(api_key, openai_installed)
    /\ target_role = ""
    /\ ai_log = <<>>
    /\ quota_seen = FALSE
    /\ last = NoRequest
    /\ step = 2
    /\ rewrites = 0
    /\ skills_run = NoSkillsRun
    /\ bullets_run = NoBulletsRun
    /\ score_run = NoScoreRun
    /\ hash_seed = 0
    /\ installed = Libraries
    /\ upload = NoUpload
    /\ walk = NoWalk
    /\ session = NoSession

\* _format(data, full)
Format ==
    /\ score_run.op = "none"
    /\ \E n \in FormatWords :
        score_run' = [NoScoreRun EXCEPT !.op = "format", !.data = resume_data,
                                        !.raw_text = Words(n),
                                        !.builtin = _format(heap[resume_data], Words(n))]
    /\ UNCHANGED <<heap, resume_data, enhanced_data, enhancer, api_key, openai_installed,
                   target_role, ai_log, quota_seen, last, step, rewrites, skills_run,
                   bullets_run, hash_seed, installed, upload, walk, session>>

NextFormat == Format

SpecFormat == InitFormat /\ [][NextFormat]_vars

(***************************************************************************)
(* The session from the save to the document (specification SpecSession)   *)
(***************************************************************************)
\* the records a user saves in the session, one after the other
SessionRecords == {1, 2, 3}

\* the text extracted from the uploaded file
SessionTexts == {"Resume"}

\* the role typed in the "Target Role" input
SessionRoles == {"ML Engineer"}

\* ResumeGenerator.generate_docx, the head of the document: the paragraph of
\* the name, the paragraph of the contact items, the summary under its header
generate_docx(resume_data_) ==
    <<resume_data_.name>>
    \o (IF \E k \in {"email", "phone", "location", "linkedin", "website"} :
                Truthy(resume_data_, k)
        THEN <<Join(" | ", SelectSeq(
                    [i \in 1..5 |->
                        IF Truthy(resume_data_, <<"email", "phone", "location",
                                                  "linkedin", "website">>[i])
                        THEN resume_data_[<<"email", "phone", "location",
                                            "linkedin", "website">>[i]]
                        ELSE ""],
                    LAMBDA x : x # ""))>>
        ELSE <<>>)
    \o (IF resume_data_.summary # ""
        THEN <<"Professional Summary", resume_data_.summary>> ELSE <<>>)

\* the session defaults, with the libraries and the interpreter of InitApp; no
\* OpenAI key and no MagicalAPI key are entered in the sidebar
InitSession ==
    /\ heap = Originals
    /\ resume_data = 0
    /\ enhanced_data = 0
    /\ api_key = ""
    /\ openai_installed = TRUE
    /\ enhancer = NewEnhancer("", openai_installed)
    /\ target_role = ""
    /\ ai_log = <<>>
    /\ quota_seen = FALSE
    /\ last = NoRequest
    /\ step = 1
    /\ rewrites = 0
    /\ skills_run = NoSkillsRun
    /\ bullets_run = NoBulletsRun
    /\ score_run = NoScoreRun
    /\ hash_seed = 0
    /\ installed = Libraries
    /\ upload = NoUpload
    /\ walk = NoWalk
    /\ session = NoSession

sessionFrame ==
    <<enhancer, api_key, openai_installed, target_role, ai_log, quota_seen, last,
      rewrites, skills_run, bullets_run, score_run, hash_seed, installed, upload, walk>>

\* "Save Parsed Data" and "Save Resume Data": the record and its text replace
\* those of the session; no other item of the session is written
SaveData ==
    \E r \in SessionRecords :
        \E raw_text \in SessionTexts :
            /\ resume_data' = r
            /\ session' = [session EXCEPT !.original_text = raw_text]
            /\ step' = Max(step, 2)
            /\ UNCHANGED <<heap, enhanced_data>>
            /\ UNCHANGED sessionFrame

\* "Calculate ATS Score", enabled when a record is saved
CalculateATSScore ==
    /\ resume_data # 0
    /\ session' = [session EXCEPT
            !.original_score =
                calculate_score("", calculate(Deep(heap, resume_data),
                                              session.original_text, JobDescription,
                                              hash_seed),
                                JobDescription, [t |-> "error"], [t |-> "error"]),
            !.scored = resume_data]
    /\ step' = Max(step, 3)
    /\ UNCHANGED <<heap, resume_data, enhanced_data>>
    /\ UNCHANGED sessionFrame

\* the enhanced record `data` of the request res stored, and scored with the
\* original text and its own text together
Enhanced(res, data) ==
    /\ heap' = Merge(res.h, res.ref, resume_data)
    /\ enhanced_data' = res.ref
    /\ session' = [session EXCEPT
            !.enhanced_score =
                calculate_score("", calculate(data, session.original_text \o " "
                                                    \o data.full_text,
                                              JobDescription, hash_seed),
                                JobDescription, [t |-> "error"], [t |-> "error"]),
            !.derived = resume_data]

\* "Enhance Resume", enabled when a record is saved
EnhanceSession ==
    /\ resume_data # 0
    /\ \E role \in SessionRoles :
        \E oracle \in Oracles(NewEnhancer(api_key, openai_installed), heap, resume_data) :
            \E res \in {enhance_resume(NewEnhancer(api_key, openai_installed),
                                       Take(heap, NumOriginals), resume_data,
                                       JobDescription, role, oracle)} :
                /\ Enhanced(res, Deep(Merge(res.h, res.ref, resume_data), res.ref))
                /\ enhancer' = [NewEnhancer(api_key, openai_installed)
                                    EXCEPT !._quota_exceeded = res.quota]
                /\ target_role' = role
                /\ Request(NewEnhancer(api_key, openai_installed), resume_data, res)
                /\ step' = Max(step, 4)
                /\ UNCHANGED <<resume_data, api_key, openai_installed, rewrites,
                               skills_run, bullets_run, score_run, hash_seed, installed,
                               upload, walk>>

\* final_data = enhanced_data if enhanced_data else resume_data
final_data == IF enhanced_data # 0 THEN enhanced_data ELSE resume_data

\* "Generate Resume Now", when there is a record to build from
GenerateResume ==
    /\ final_data # 0
    /\ session' = [session EXCEPT
            !.docx_bytes = generate_docx(Deep(heap, final_data)),
            !.generated = TRUE,
            !.final = IF enhanced_data # 0 THEN session.derived ELSE resume_data,
            !.saved = resume_data]
    /\ step' = 5
    /\ UNCHANGED <<heap, resume_data, enhanced_data>>
    /\ UNCHANGED sessionFrame

\* "Start Over": every item of the session is deleted and the defaults come
\* back with the rerun; the records of the requests made are garbage
StartOver ==
    /\ step > 1
    /\ resume_data' = 0
    /\ enhanced_data' = 0
    /\ heap' = Originals
    /\ api_key' = ""
    /\ session' = NoSession
    /\ step' = 1
    /\ enhancer' = NewEnhancer("", openai_installed)
    /\ target_role' = ""
    /\ ai_log' = <<>>
    /\ last' = NoRequest
    /\ UNCHANGED <<openai_installed, quota_seen, rewrites, skills_run, bullets_run,
                   score_run, hash_seed, installed, upload, walk>>

NextSession ==
    SaveData \/ CalculateATSScore \/ EnhanceSession \/ GenerateResume \/ StartOver

SpecSession == InitSession /\ [][NextSession]_vars

(***************************************************************************)
(* The properties                                                          *)
(***************************************************************************)
DeepOf(res) == Deep(res.h, res.ref)

Range(xs) == {xs[i] : i \in 1..Len(xs)}

\* C1: when an AI sub-call of a request signals quota exhaustion, the quota
\* flag of the instance is set, that sub-call is the last one of the request,
\* and the record returned is the deterministic rewrite (_rule_enhance) of the
\* original record, so no AI output obtained before the abort is in it.
C1_QuotaAbortFallsBack ==
    SignalsQuota(ai_log) =>
        /\ enhancer._quota_exceeded
        /\ ai_log[Len(ai_log)].outcome = "quota"
        /\ \A i \in 1..(Len(ai_log) - 1) : ai_log[i].outcome # "quota"
        /\ last.path = "rule"
        /\ Deep(heap, enhanced_data)
             = DeepOf(_rule_enhance(Originals, last.input, target_role, JobDescription))

\* a request whose first sub-call got a new text from the AI and whose later
\* sub-call signalled quota exhaustion
C1_Witness ==
    /\ Len(ai_log) >= 2
    /\ ai_log[1].outcome = "new"
    /\ ai_log[Len(ai_log)].outcome = "quota"
    /\ enhanced_data # 0

\* C2: the quota flag of an instance starts false, never goes back from true to
\* false, and once it is true (or once a call has signalled quota exhaustion)
\* no later request of the instance calls the external AI client.
C2_QuotaFlagSticky ==
    /\ ~enhancer._quota_exceeded
    /\ [][ /\ enhancer._quota_exceeded => enhancer'._quota_exceeded /\ ai_log' = <<>>
           /\ quota_seen => enhancer._quota_exceeded /\ ~SignalsQuota(ai_log') ]_vars

\* a request made on an instance whose flag was already set
C2_Witness ==
    /\ last.quota_before
    /\ enhancer._quota_exceeded
    /\ last.path = "rule"
    /\ ai_log = <<>>

\* C3: within a session of the application, once an external AI call has
\* signalled quota exhaustion, no later "Enhance Resume" request makes an
\* external AI call.
C3_NoCallAfterQuotaInSession == last.seen_before => ai_log = <<>>

\* C4: a failure of an AI sub-call that is not a quota error does not set the
\* quota flag, the sub-calls that follow it in the request are still made (the
\* calls made are the applicable ones, in order, up to the end or to a quota
\* error), and the request returns a record.
C4_ErrorDoesNotAbort ==
    \A i \in 1..Len(ai_log) :
        ai_log[i].outcome = "error" =>
            /\ ~SignalsQuota(ai_log) => ~enhancer._quota_exceeded
            /\ i < NumSubCalls(Originals, last.input) => i < Len(ai_log)
            /\ [k \in 1..Len(ai_log) |-> ai_log[k].kind]
                 = Take(SubCallKinds(Originals, last.input), Len(ai_log))
            /\ ~SignalsQuota(ai_log) => Len(ai_log) = NumSubCalls(Originals, last.input)
            /\ last.path \in {"ai", "rule"}
            /\ enhanced_data > NumOriginals

\* a request whose first sub-call failed and whose two later sub-calls were
\* made, the last one giving a new text that is returned
C4_Witness ==
    /\ Len(ai_log) = 3
    /\ ai_log[1].outcome = "error"
    /\ ai_log[3].outcome = "new"
    /\ last.path = "ai"
    /\ ~enhancer._quota_exceeded

\* C5: when the AI path completes without a quota error, the AI result is
\* returned exactly when one of summary, experience_text, projects_text of the
\* AI result differs from the original's value of that field (an empty original
\* field for which the AI produced text included); otherwise the deterministic
\* rewrite is returned.  The AI result is the first object the request makes.
C5_AiResultKeptIffDiffers ==
    (ai_log # <<>> /\ ~SignalsQuota(ai_log)) =>
        /\ last.path = "ai" <=>
              \E key \in ImprovedKeys :
                  Strip(heap[NumOriginals + 1][key]) # Strip(Originals[last.input][key])
        /\ last.path = "ai" => enhanced_data = NumOriginals + 1
        /\ last.path # "ai" =>
              Deep(heap, enhanced_data)
                = DeepOf(_rule_enhance(Originals, last.input, target_role, JobDescription))

\* C6: enhance_resume never mutates the record it is given: after any sequence
\* of requests every original object (the records and the entries they refer
\* to, with every field) is as it was, and the record returned and its entries
\* are other objects than the originals.
C6_OriginalNeverMutated ==
    /\ \A r \in 1..NumOriginals : heap[r] = Originals[r]
    /\ enhanced_data # 0 =>
          /\ enhanced_data > NumOriginals
          /\ \A i \in 1..Len(heap[enhanced_data].experience_entries) :
                 heap[enhanced_data].experience_entries[i] > NumOriginals

\* the AI path has returned a record whose first entry has other
\* responsibilities than the entry of the original
C6_Witness ==
    /\ last.path = "ai"
    /\ last.input = 4
    /\ heap[heap[enhanced_data].experience_entries[1]].responsibilities
         # Originals[Originals[4].experience_entries[1]].responsibilities

\* C7: the full_text of every record returned by enhance_resume is
\* _build_full_text of the other fields of that record.
C7_FullTextFresh ==
    enhanced_data # 0 =>
        heap[enhanced_data].full_text = _build_full_text(heap, enhanced_data)

\* the AI path has returned a record whose skills, the last field assigned
\* before full_text, are not those of the original
C7_Witness ==
    /\ last.path = "ai"
    /\ heap[enhanced_data].skills # Originals[last.input].skills
    /\ heap[enhanced_data].full_text # ""

SummaryOpening == "Results-driven "

\* C8, as the code has it: the summary _rule_enhance returns always opens with
\* "Results-driven ", so the record returned differs from every input whose
\* summary does not open so.
C8_RewriteChangesOtherSummaries ==
    last.path = "rule" =>
        /\ StartsWith(heap[enhanced_data].summary, SummaryOpening)
        /\ ~StartsWith(heap[last.input].summary, SummaryOpening) =>
              heap[enhanced_data].summary # heap[last.input].summary

\* the rewriter has run on a record whose summary does not open with
\* "Results-driven " and has given it another summary
C8_Witness ==
    /\ last.path = "rule"
    /\ heap[last.input].summary = "Team player."
    /\ heap[enhanced_data].summary # "Team player."

ChangedFields ==
    {"summary", "experience_text", "projects_text", "experience_entries", "skills"}

\* C8 as stated: for every input record, the output of an earlier rewrite
\* included, _rule_enhance returns a record that differs from its input in one
\* of summary, experience_text, projects_text, experience_entries, skills.
C8_RewriteAlwaysChanges ==
    last.path = "rule" =>
        \E f \in ChangedFields : Deep(heap, enhanced_data)[f] # Deep(heap, last.input)[f]

\* C9, as the code has it: the output of _expand_skills has at most 25 entries,
\* and it contains every skill of the input when the input holds at most 25
\* distinct skills.
C9_ExpandCapsAndKeeps ==
    skills_run.op = "expand" =>
        /\ Len(skills_run.output) <= MaxSkills
        /\ Cardinality(Range(skills_run.input)) <= MaxSkills =>
              Range(skills_run.input) \subseteq Range(skills_run.output)

\* _expand_skills has run on exactly 25 distinct skills and has kept them all
C9_Witness ==
    /\ skills_run.op = "expand"
    /\ Cardinality(Range(skills_run.input)) = MaxSkills
    /\ skills_run.output = skills_run.input

\* C9 as stated: for every non-empty skills list, role and job description the
\* output of _expand_skills has at most 25 entries and contains every skill of
\* the input.
C9_ExpandKeepsAll ==
    (skills_run.op = "expand" /\ skills_run.input # <<>>) =>
        /\ Len(skills_run.output) <= MaxSkills
        /\ Range(skills_run.input) \subseteq Range(skills_run.output)

\* C10: no two entries of a skills list are equal when compared without regard
\* to case, in the output of _parse_skills, in the output of _expand_skills and
\* in the skills of the AI-path result.
C10_NoCaseVariantDuplicates ==
    skills_run.op # "none" =>
        \A i, j \in 1..Len(skills_run.output) :
            i # j => Lower(skills_run.output[i]) # Lower(skills_run.output[j])

\* the skills the statement of C11 lists after the original ones: those of the
\* role buckets whose key is in the lowercased role-plus-skills text, then the
\* generic ones
C11_Listed(skills, role) ==
    Concat([n \in 1..Len(role_map) |->
               IF Contains(role_map[n].key, Lower(role \o " " \o Join(" ", skills)))
               THEN role_map[n].extras ELSE <<>>])
    \o <<"Git", "Agile", "Problem Solving", "Team Collaboration", "Communication">>

\* C11: _expand_skills returns the original skills in their order, then the
\* skills of every role bucket (in the order flutter, android, frontend,
\* backend, python, ml, aiml) whose key is in the lowercased role-plus-skills
\* text, then the five generic skills, without the skills that an original
\* skill equals case-insensitively and without repetitions, cut to 25; for
\* ["Python"] and "ML Engineer" the result holds TensorFlow, Scikit-learn and
\* the five generic skills.
C11_ExpandOrder ==
    /\ [n \in 1..Len(role_map) |-> role_map[n].key]
         = <<"flutter", "android", "frontend", "backend", "python", "ml", "aiml">>
    /\ skills_run.op = "expand" =>
          /\ skills_run.output
               = Take(DictFromKeys(
                          skills_run.input
                          \o SelectSeq(C11_Listed(skills_run.input, skills_run.role),
                                 LAMBDA s : \A i \in 1..Len(skills_run.input) :
                                               Lower(skills_run.input[i]) # Lower(s))),
                      25)
          /\ (skills_run.input = <<"Python">> /\ skills_run.role = "ML Engineer") =>
                {"TensorFlow", "Scikit-learn", "Git", "Agile", "Problem Solving",
                 "Team Collaboration", "Communication"} \subseteq Range(skills_run.output)

\* _expand_skills has run on ["Python"] with the role "ML Engineer" and has
\* added the skills of the python and ml buckets and the generic ones
C11_Witness ==
    /\ skills_run.op = "expand"
    /\ skills_run.input = <<"Python">>
    /\ skills_run.role = "ML Engineer"
    /\ skills_run.output
         = <<"Python", "Django", "FastAPI", "Pandas", "NumPy", "SQL", "Machine Learning",
             "TensorFlow", "Scikit-learn", "Data Analysis", "Git", "Agile",
             "Problem Solving", "Team Collaboration", "Communication">>

C17_Line == "As a Developer at Acme, I contributed to the design and development of an app"

\* C17, as the code has it: one pass of the bullet rewriter over the line
\* "As a Developer at Acme, I contributed to the design and development of an
\* app" removes the opener only (the first rule that matches wins) and yields
\* "Contributed to the design and development of an app"; the second pass
\* yields "Designed and developed an app".
C17_OnePassRemovesOpener ==
    bullets_run.input = C17_Line =>
        /\ bullets_run.output = "Contributed to the design and development of an app"
        /\ bullets_run.again = "Designed and developed an app"

\* the rewriter has run on that line
C17_Witness ==
    /\ bullets_run.op = "rewrite"
    /\ bullets_run.input = C17_Line
    /\ bullets_run.output # bullets_run.input

\* C17 as stated: one pass over that line yields "Designed and developed an
\* app".
C17_OnePassExample ==
    bullets_run.input = C17_Line => bullets_run.output = "Designed and developed an app"

\* the marker-stripped text of a line
C18_Stripped(line) == LStripSet(Strip(line), Markers)

\* no prefix rule matches the marker-stripped text of any line of the text
C18_NoRuleMatches(text) ==
    \A line \in Range(Split(text, "\n")) :
        C18_Stripped(line) # "" => FirstRule(C18_Stripped(line)) > Len(replacements)

\* every line of the text with a marker-stripped text is that text, not
\* starting with a lower-case letter, right after a "~ " or "- " prefix or none
C18_ProperLines(text) ==
    \A line \in Range(Split(text, "\n")) :
        C18_Stripped(line) # "" =>
            /\ line = LinePrefix(line) \o C18_Stripped(line)
            /\ Ch(C18_Stripped(line), 1) \notin LowerSet

\* C18, as the code has it: if every line of _rewrite_bullets(t) is properly
\* capitalised text right after its prefix and no prefix rule matches it, then
\* _rewrite_bullets(_rewrite_bullets(t)) = _rewrite_bullets(t).
C18_IdempotentOnProperText ==
    (/\ bullets_run.op = "rewrite"
     /\ C18_NoRuleMatches(bullets_run.output)
     /\ C18_ProperLines(bullets_run.output)) =>
        bullets_run.again = bullets_run.output

\* a rule has rewritten a line, and the second pass leaves the result alone
C18_Witness ==
    /\ bullets_run.input = "~ helped with testing"
    /\ bullets_run.output = "~ Assisted in testing"
    /\ C18_NoRuleMatches(bullets_run.output)
    /\ C18_ProperLines(bullets_run.output)
    /\ bullets_run.again = bullets_run.output

\* C18 as stated: for every text t, if no prefix rule matches any
\* marker-stripped line of _rewrite_bullets(t), then rewriting it again
\* changes nothing.
C18_Idempotent ==
    (bullets_run.op = "rewrite" /\ C18_NoRuleMatches(bullets_run.output)) =>
        bullets_run.again = bullets_run.output

ScoreKeys ==
    {"overall_score", "keyword_score", "format_score", "content_score", "section_score"}

\* C12: after every pass of calculate_score, with the built-in engine alone or
\* with a reply of the external service, each of overall_score, keyword_score,
\* format_score, content_score and section_score of the report is an integer
\* from 0 to 100.
C12_ScoresInRange ==
    score_run.op # "none" => \A k \in ScoreKeys : score_run.report[k] \in 0..100

\* the part of C12 that holds: the scores of the built-in engine
C12_BuiltinInRange ==
    score_run.op # "none" => \A k \in ScoreKeys : score_run.builtin[k] \in 0..100

\* C13: the overall score the built-in engine gives an enhanced record with
\* the original text and the enhanced text together is at least the one it
\* gives the same record with the enhanced text alone.
C13_CombinedNotLower ==
    score_run.op = "enhanced" =>
        score_run.builtin.overall_score >= score_run.alone.overall_score

\* C14: scoring leaves every resume record and entry as it was, and a second
\* pass of the built-in engine on the same inputs returns the report of the
\* first.
C14_ScoringPureAndRepeatable ==
    /\ \A r \in 1..Len(ScoreHeap) : heap[r] = ScoreHeap[r]
    /\ score_run.op = "again" => score_run.builtin = score_run.previous

\* the parts of C14 that hold: no record is changed, and two passes in one
\* interpreter process agree
C14_RecordsUnchanged == \A r \in 1..Len(ScoreHeap) : heap[r] = ScoreHeap[r]
C14_SameProcessRepeatable ==
    (score_run.op = "again" /\ score_run.seeds[1] = score_run.seeds[2]) =>
        score_run.builtin = score_run.previous

\* the replies of ServiceReplies without a usable result: the failed request,
\* no score, a zero score, and the bodies that cannot be parsed
C15_Unusable == {1, 2, 3, 8, 9, 10, 11, 12}

\* the overall score of the usable replies, read off ServiceReplies
C15_ExternalScore == (4 :> 72) @@ (5 :> 85) @@ (6 :> 150) @@ (7 :> 0 - 5)

\* C15: with a key for the external service, calculate_score returns a report
\* whatever the service does: after a failed request, a reply with a zero or
\* absent overall score, or a reply that cannot be parsed, the report is the
\* one of the built-in engine (scores, suggestions, missing keywords) with the
\* source "Built-in (MagicalAPI unavailable)"; after any other reply its
\* overall_score is the score of the reply.
C15_ExternalFailureFallsBack ==
    (score_run.op \in {"score", "enhanced"} /\ Strip(score_run.key) # "") =>
        IF score_run.review \in C15_Unusable
        THEN score_run.report =
                 [score_run.builtin EXCEPT !.source = "Built-in (MagicalAPI unavailable)"]
        ELSE /\ score_run.report.overall_score = C15_ExternalScore[score_run.review]
             /\ score_run.report.source = "MagicalAPI"

C15_Witness ==
    /\ score_run.op = "score"
    /\ score_run.key = "mk-live"
    /\ score_run.review = 8
    /\ score_run.report.source = "Built-in (MagicalAPI unavailable)"
    /\ score_run.report.overall_score = score_run.builtin.overall_score
    /\ score_run.report.suggestions # <<>>

\* the stage each suggestion of the built-in engine comes from
C16_StageOf(msg) ==
    IF \E i \in 1..Len(SectionChecks) : SectionChecks[i].msg = msg THEN 1
    ELSE IF \/ msg \in {"Add more technical skills relevant to your role",
                        "Include soft skills like leadership and communication",
                        "Use strong action verbs: achieved, led, implemented, optimized"}
            \/ StartsWith(msg, "Add job-description keywords: ") THEN 2
    ELSE IF \/ StartsWith(msg, "Missing contact info: ")
            \/ StartsWith(msg, "Resume too short")
            \/ msg = "Add your LinkedIn profile URL" THEN 4
    ELSE 3

\* the suggestions of the four stages for the inputs of the last pass (in the
\* process it ran in), in the order sections, keywords, content, format
C16_StageSuggestions ==
    LET data == Deep(heap, score_run.data)
        full == _full_text(data, score_run.raw_text)
    IN  _sections(data).sg
        \o _keywords(Lower(full), score_run.jd, score_run.seeds[Len(score_run.seeds)]).sg
        \o _content(Lower(full), data).sg
        \o _format(data, full).sg

\* C16: every report has at most 8 suggestions and at most 15 missing
\* keywords; the suggestions of the built-in engine are the first 8 of the
\* suggestions of the section, keyword, content and format stages, in that
\* order, so that none of a later stage stands before one of an earlier stage.
C16_SuggestionsCappedInOrder ==
    score_run.op # "none" =>
        /\ Len(score_run.report.suggestions) <= 8
        /\ Len(score_run.report.missing_keywords) <= 15
        /\ Len(score_run.builtin.suggestions) <= 8
        /\ Len(score_run.builtin.missing_keywords) <= 15
        /\ \A i, j \in 1..Len(score_run.builtin.suggestions) :
               i < j => C16_StageOf(score_run.builtin.suggestions[i])
                            <= C16_StageOf(score_run.builtin.suggestions[j])
        /\ score_run.key = "" =>
               score_run.builtin.suggestions = Take(C16_StageSuggestions, 8)

C16_Witness ==
    /\ score_run.op = "score"
    /\ score_run.key = ""
    /\ Len(C16_StageSuggestions) > 8
    /\ Len(score_run.builtin.suggestions) = 8
    /\ C16_StageOf(score_run.builtin.suggestions[1]) = 1
    /\ C16_StageOf(score_run.builtin.suggestions[8]) = 3


\* The runs of the name heuristic: the uploads that are parsed as text, whose
\* lines are the stripped non-empty lines of the text.
NameRun == upload.op = "pdf" /\ ~upload.raised
NameLines == TextLines(upload.raw_text)

C20_Pass1Hits ==
    {i \in 1..Len(NameLines) : i <= 12 /\ ~is_contact(NameLines[i]) /\ is_name(NameLines[i])}
C20_Pass2Hits ==
    {i \in 1..Len(NameLines) : i <= 5 /\ is_name(Cleaned(NameLines[i]))}
C20_Window(n) == Join(" ", LastN(last_seg(First(NameLines)), n))
C20_Cased(line) == IF isupper(line) THEN title(line) ELSE line

C20_Expected ==
    IF C20_Pass1Hits # {} THEN C20_Cased(NameLines[SetMin(C20_Pass1Hits)])
    ELSE IF C20_Pass2Hits # {} THEN title(Cleaned(NameLines[SetMin(C20_Pass2Hits)]))
    ELSE IF is_name(C20_Window(2)) THEN title(C20_Window(2))
    ELSE IF is_name(C20_Window(3)) THEN title(C20_Window(3))
    ELSE IF NameLines = <<>> THEN ""
    ELSE SubSeq(NameLines[1], 1, IF Len(NameLines[1]) < 50 THEN Len(NameLines[1]) ELSE 50)

C20_Example == <<"John Smith", "john@example.com | +91 9876543210", "Experience">>

\* C20: the name is the first of the first 12 lines that has no contact
\* signal and the shape of a name, title-cased when all upper case and
\* verbatim otherwise; failing that, the first of the first 5 lines whose
\* cleaned form has the shape of a name, title-cased; failing that, the
\* trailing 2-word and then 3-word window of the first line's last segment,
\* title-cased; failing that, the first 50 characters of the first line, and
\* the empty string when there is no line.  The lines "John Smith",
\* "john@example.com | +91 9876543210", "Experience" give "John Smith".
C20_NamePassesInOrder ==
    NameRun =>
        /\ upload.parsed_data.name = C20_Expected
        /\ (NameLines = C20_Example => upload.parsed_data.name = "John Smith")

C20_Witness ==
    /\ NameRun
    /\ NameLines = C20_Example
    /\ upload.parsed_data.name = "John Smith"

\* further cases of C20 that the uploads reach: a name found by pass 2 only,
\* by pass 3 only, and the cut of the fallback
C20_Pass2Reached ==
    NameRun /\ C20_Pass1Hits = {} /\ C20_Pass2Hits # {} /\ upload.parsed_data.name = "John Smith"
C20_Pass3Reached ==
    /\ NameRun /\ C20_Pass1Hits = {} /\ C20_Pass2Hits = {}
    /\ upload.parsed_data.name = "Dhruv Bhanushali"
C20_FallbackReached ==
    /\ NameRun /\ C20_Pass1Hits = {} /\ C20_Pass2Hits = {} /\ ~is_name(C20_Window(2))
    /\ Len(NameLines) > 0 /\ Len(NameLines[1]) > 50 /\ Len(upload.parsed_data.name) = 50

\* the uploads of a file that no library can open
C19_Unreadable == upload.op # "none" /\ ~upload.file.opens

\* the fields of a record of the text path, the name apart, are all empty
C19_EmptyButName(data) ==
    /\ \A k \in {"email", "phone", "linkedin", "github", "website", "location", "summary",
                  "education_text", "experience_text", "projects_text"} : data[k] = ""
    /\ data.skills = <<>>
    /\ data.certifications = <<>>

\* C19: for a file that cannot be opened, parse_pdf and parse_docx return to
\* the caller (nothing is raised), with a diagnostic string in place of the
\* text, whichever of the libraries are installed.
C19_UnreadableNeverRaises ==
    C19_Unreadable => ~upload.raised /\ upload.raw_text # ""

\* C19, the DOCX entry point: it returns the minimal record, and the message
\* of the error as the text.
C19_DocxReturnsMinimal ==
    C19_Unreadable /\ upload.op = "docx" =>
        /\ ~upload.raised
        /\ upload.parsed_data = MinimalRecord
        /\ upload.raw_text \in {"No module named 'docx'", "File is not a zip file"}

\* C19, the PDF entry point without pdfplumber: it returns the diagnostic as
\* the text, and a record that is empty but for its name, which is the
\* diagnostic too.
C19_WithoutPdfplumber ==
    C19_Unreadable /\ upload.op = "pdf" /\ "pdfplumber" \notin installed =>
        /\ ~upload.raised
        /\ StartsWith(upload.raw_text, "(PDF parse error: ")
        /\ C19_EmptyButName(upload.parsed_data)
        /\ upload.parsed_data.name = upload.raw_text

\* C19, the PDF entry point with pdfplumber: the error of the library
\* reaches the caller.
C19_WithPdfplumberRaises ==
    C19_Unreadable /\ upload.op = "pdf" /\ "pdfplumber" \in installed => upload.raised

\* the paragraph the last pass of the loop took
LastParagraph(w) == w.paragraphs[Len(w.paragraphs)]

\* the digits of the run phone_re finds in the line ("": no run)
PhoneRun(line) == DigitsOf(Search(line, phone_re(line)))

\* what C21 says of one contact step on `line`, from the record old to new
ContactKept(line, old, new) ==
    /\ \/ new.phone = old.phone
       \/ /\ Len(new.phone) = 10
          /\ new.phone = LastN(PhoneRun(line), 10)
    /\ Len(PhoneRun(line)) < 10 => new.phone = old.phone
    /\ Search(line, email_re(line)) = "" => new.email = old.email
    /\ Search(line, linkedin_re(line)) = "" => new.linkedin = old.linkedin
    /\ Search(line, github_re(line)) = "" =>
            new.github = old.github /\ new.website = old.website

\* a pass of the loop over a Subtitle paragraph with text
ContactStep ==
    /\ walk.pc = "loop"
    /\ walk'.pc = "loop"
    /\ Len(walk'.paragraphs) = Len(walk.paragraphs) + 1
    /\ Contains("subtitle", StyleOf(LastParagraph(walk')))
    /\ Strip(LastParagraph(walk').text) # ""

\* C21: a contact step writes the phone only as the last 10 digits of the
\* matched run, leaves it alone when the run has fewer than 10 digits, and
\* leaves email, linkedin, github and website alone when their pattern has
\* no match in the line.
C21_ContactOnlyMatched ==
    [][ContactStep =>
         ContactKept(Strip(LastParagraph(walk').text), walk.w.data, walk'.w.data)]_vars

\* a longer run was cut to its last 10 digits, and the shorter run of the
\* next contact line left that phone in place
C21_Witness ==
    /\ walk.pc = "loop"
    /\ Len(walk.paragraphs) = 2
    /\ walk.paragraphs[1].text = "john@example.com | +91 9876543210 | Pune, India"
    /\ walk.paragraphs[2].text = "tel 2345-6789"
    /\ walk.w.data.phone = "9876543210"
    /\ walk.w.data.email = "john@example.com"

\* C21, plain-text path: the contact step of _extract_from_text starts from
\* empty fields, so each field is the match of its pattern or empty.
C21_TextContact ==
    (upload.op = "pdf" /\ ~upload.raised) =>
        ContactKept(upload.raw_text, EmptyParsed, upload.parsed_data)

C21_TextWitness ==
    /\ upload.op = "pdf"
    /\ ~upload.raised
    /\ upload.parsed_data.phone # ""
    /\ Len(PhoneRun(upload.raw_text)) > 10

\* the entries of the walk in the order they were opened: the flushed ones,
\* then the open one
EntriesOf(w) ==
    w.exp_entries \o (IF w.current_exp = None THEN <<>> ELSE <<w.current_exp>>)

\* the duration an opening gives its entry: the text of a Heading 2, nothing
\* for a Heading 3
DurationOf(para) ==
    IF Contains("heading 2", StyleOf(para)) THEN Strip(para.text) ELSE ""

\* one entry per opening so far, in document order, each with the duration
\* of its opening
OnePerOpening ==
    walk.pc \in {"loop", "done"} =>
        /\ Len(EntriesOf(walk.w)) = Len(walk.opened)
        /\ \A i \in 1..Len(walk.opened) :
               EntriesOf(walk.w)[i].duration = DurationOf(walk.paragraphs[walk.opened[i]])
        /\ \A i, j \in 1..Len(walk.opened) : i < j => walk.opened[i] < walk.opened[j]

\* the last pass took a Heading 2 inside the experience section, or a
\* Heading 1 that opened another section than experience
FlushingStep ==
    /\ Strip(LastParagraph(walk').text) # ""
    /\ ~Contains("title", StyleOf(LastParagraph(walk')))
    /\ \/ /\ Contains("heading 1", StyleOf(LastParagraph(walk')))
          /\ walk'.w.current_section # "experience"
       \/ /\ ~Contains("heading 1", StyleOf(LastParagraph(walk')))
          /\ Contains("heading 2", StyleOf(LastParagraph(walk')))
          /\ walk.w.current_section = "experience"

\* a pass of the loop flushes the open entry, at the end of the list, exactly
\* on a flushing step; the flushed entries are never touched again
FlushedOnce ==
    (walk.pc = "loop" /\ walk'.pc = "loop" /\ walk'.paragraphs # walk.paragraphs) =>
        IF walk.w.current_exp # None /\ FlushingStep
        THEN walk'.w.exp_entries = Append(walk.w.exp_entries, walk.w.current_exp)
        ELSE walk'.w.exp_entries = walk.w.exp_entries

\* the end of the input flushes the open entry, and the record returns the
\* list
FlushedAtEnd ==
    walk.pc = "done" => upload.parsed_data.experience_entries = EntriesOf(walk.w)

\* C24: every experience entry opened by a Heading 2 in an experience section
\* (or by a Heading 3 with no entry open) is flushed exactly once, on the
\* next Heading 2, on a Heading 1 opening another section, or at the end of
\* the input; the returned list has one entry per opening, in document
\* order, each with the text of its opening Heading 2 as duration.
C24_EntriesFlushedOnce ==
    /\ [](OnePerOpening /\ FlushedAtEnd)
    /\ [][FlushedOnce]_vars

\* two entries, the first flushed by the second Heading 2 and the second at
\* the end of the input
C24_Witness ==
    /\ walk.pc = "done"
    /\ Len(walk.opened) = 2
    /\ Len(walk.w.exp_entries) = 1
    /\ walk.w.current_exp # None
    /\ Len(upload.parsed_data.experience_entries) = 2
    /\ upload.parsed_data.experience_entries[1] =
            [duration |-> "2019", title |-> "Intern", company |-> "",
             responsibilities |-> <<>>]
    /\ upload.parsed_data.experience_entries[2] = NewEntry("2019")

\* an entry flushed by a Heading 1 that opens another section
C24_HeadingOneFlushes ==
    /\ walk.pc = "loop"
    /\ Len(walk.opened) = 1
    /\ walk.w.current_exp = None
    /\ walk.w.current_section = "education"
    /\ Len(walk.w.exp_entries) = 1

\* an entry opened by a Heading 3
C24_HeadingThreeOpens ==
    /\ walk.pc = "done"
    /\ Len(walk.opened) = 2
    /\ ~Contains("heading 2", StyleOf(walk.paragraphs[walk.opened[1]]))
    /\ upload.parsed_data.experience_entries[1].duration = ""
    /\ upload.parsed_data.experience_entries[1].title = "Intern"

\* the lines "\n~ r" of the responsibilities from the i-th on, one after
\* the other
RECURSIVE BulletLinesFrom(_, _)
BulletLinesFrom(rs, i) ==
    IF i > Len(rs) THEN ""
    ELSE "\n" \o Bullet \o " " \o rs[i] \o BulletLinesFrom(rs, i + 1)

\* the block of one entry as C25 describes it
BlockOf(e) ==
    (IF e.company = "" THEN e.title \o " (" \o e.duration \o ")"
     ELSE e.title \o " | " \o e.company \o " (" \o e.duration \o ")")
    \o BulletLinesFrom(e.responsibilities, 1)

\* the blocks from the i-th on, each after a blank line
RECURSIVE BlocksFrom(_, _)
BlocksFrom(es, i) ==
    IF i > Len(es) THEN ""
    ELSE "\n\n" \o BlockOf(es[i]) \o BlocksFrom(es, i + 1)

\* C25: the experience_text a styled document returns is the rendering of
\* the experience_entries it returns: a header line per entry, its
\* responsibilities as bullet lines in order, a blank line between the
\* blocks; it is empty exactly when there are no entries.
C25_TextRendersEntries ==
    walk.pc = "done" =>
        /\ upload.parsed_data.experience_text =
              IF upload.parsed_data.experience_entries = <<>> THEN ""
              ELSE BlockOf(upload.parsed_data.experience_entries[1])
                   \o BlocksFrom(upload.parsed_data.experience_entries, 2)
        /\ upload.parsed_data.experience_text = ""
              <=> upload.parsed_data.experience_entries = <<>>

\* an entry with a company and a responsibility
C25_Witness ==
    /\ walk.pc = "done"
    /\ upload.parsed_data.experience_text =
          "Developer | Acme (2020 - 2022)\n" \o Bullet \o " Built APIs in Python"

\* two entries without a company, the second with a responsibility
C25_TwoBlocks ==
    /\ walk.pc = "done"
    /\ Len(upload.parsed_data.experience_entries) = 2
    /\ upload.parsed_data.experience_text =
          " (2021)\n\n (2021)\n" \o Bullet \o " ~ Led a team of 5"

\* no entry: body paragraphs only
C25_NoEntries ==
    /\ walk.pc = "done"
    /\ walk.w.current_section = "experience"
    /\ Len(walk.paragraphs) = MaxParagraphs
    /\ upload.parsed_data.experience_text = ""

\* the section types in the order C26 gives them
SectionTypes == <<"summary", "experience", "education", "skills", "projects", "certifications">>

\* the positions in SectionTypes of the types with a trigger phrase in ht
TypesIn(ht) ==
    {k \in 1..Len(SectionTypes) :
        \E j \in 1..Len(KeywordsOf(SectionTypes[k])) :
            Contains(KeywordsOf(SectionTypes[k])[j], ht)}

\* the key C26 gives the section a Heading 1 with this text opens
KeyOf(text) ==
    IF TypesIn(Lower(text)) = {} THEN Lower(text)
    ELSE SectionTypes[SetMin(TypesIn(Lower(text)))]

\* the content the dict of sections holds under the key (<<>>: no such key)
ContentOf(sections, key) ==
    IF \E k \in 1..Len(sections) : sections[k].name = key
    THEN sections[CHOOSE k \in 1..Len(sections) : sections[k].name = key].content
    ELSE <<>>

\* a pass over a Heading 1 stores the buffer under the current key, empties
\* it, and opens the section with the key of the heading
HeadingOneStep ==
    (/\ walk.pc = "loop" /\ walk'.pc = "loop"
     /\ walk'.paragraphs # walk.paragraphs
     /\ IsHeading1(LastParagraph(walk'))) =>
        /\ ContentOf(walk'.w.sections, walk.w.current_section) = walk.w.current_lines
        /\ \E k \in 1..Len(walk'.w.sections) :
               walk'.w.sections[k].name = walk.w.current_section
        /\ walk'.w.current_lines = <<>>
        /\ walk'.w.current_section = KeyOf(Strip(LastParagraph(walk').text))

\* the positions of the body paragraphs of ad hoc sections
AdHocBodies(w) ==
    {w.bodies[i].at : i \in {i \in 1..Len(w.bodies) :
        /\ w.bodies[i].heading > 0
        /\ TypesIn(Lower(Strip(w.paragraphs[w.bodies[i].heading].text))) = {}}}

\* the paragraphs from the i-th on without those at the positions
RECURSIVE DropAt(_, _, _)
DropAt(paragraphs, positions, i) ==
    IF i > Len(paragraphs) THEN <<>>
    ELSE (IF i \in positions THEN <<>> ELSE <<paragraphs[i]>>)
         \o DropAt(paragraphs, positions, i + 1)

\* two records agree on the fields
SameFields(data, other, fields) == \A f \in fields : data[f] = other[f]

\* the record of the document and the record of the document without the
\* bodies of its ad hoc sections agree on the fields
SameWithoutAdHoc(w, data, fields) ==
    SameFields(data, _extract_from_docx(DropAt(w.paragraphs, AdHocBodies(w), 1)).data,
               fields)

\* the fields the fallbacks over the whole text write
FallbackFields == {"name", "skills"}

\* C26: a Heading 1 closes the buffer of the current section and opens the
\* section keyed by the first type, in the order summary, experience,
\* education, skills, projects, certifications, with a trigger phrase in the
\* lowercased heading, or by the lowercased heading when there is none; the
\* body of such an ad hoc section is mapped to no field: it can reach the
\* record only through the fallbacks for the name and the skills.
C26_HeadingOneOpensSection ==
    /\ [][HeadingOneStep]_vars
    /\ [](walk.pc = "done" /\ AdHocBodies(walk) # {} =>
            SameWithoutAdHoc(walk, upload.parsed_data,
                             DOMAIN upload.parsed_data \ FallbackFields))

\* C26 as stated: the body lines of an ad hoc section set none of the
\* record's fields.
C26_AdHocBodySetsNothing ==
    walk.pc = "done" /\ AdHocBodies(walk) # {} =>
        SameWithoutAdHoc(walk, upload.parsed_data, DOMAIN upload.parsed_data)

\* a heading with the trigger phrases of two types opened the first of
\* them, and a heading with none opened an ad hoc section with a body
C26_Witness ==
    /\ walk.pc = "done"
    /\ Len(walk.paragraphs) = 4
    /\ walk.paragraphs[1].text = "Skills Summary"
    /\ walk.paragraphs[2].text = "Python, Docker"
    /\ walk.paragraphs[3].text = "Hobbies"
    /\ walk.w.current_section = "hobbies"
    /\ walk.w.sections = <<[name |-> "header", content |-> <<>>],
                           [name |-> "summary", content |-> <<"Python, Docker">>]>>
    /\ AdHocBodies(walk) = {4}
    /\ upload.parsed_data.summary = "Python, Docker"

\* the body of an ad hoc section gave the record its skills
C26_FallbackReads ==
    /\ walk.pc = "done"
    /\ walk.paragraphs = <<P("Heading 1", "Hobbies"), P("Normal", "Python, Docker")>>
    /\ upload.parsed_data.skills = <<"Python", "Docker">>
    /\ upload.parsed_data.name = "Python Docker"

\* the output field C29 names for a section type
FieldOf(type) ==
    CASE type = "summary" -> "summary"
      [] type = "education" -> "education_text"
      [] type = "projects" -> "projects_text"
      [] type = "certifications" -> "certifications"
      [] type = "experience" -> "experience_text"

\* whether the text appears in the field of the record
AppearsIn(text, data, field) ==
    IF field = "certifications"
    THEN \E i \in 1..Len(data.certifications) : Contains(text, data.certifications[i])
    ELSE Contains(text, data[field])

\* the body paragraphs that follow a Heading 1 of a type C29 names
RecognisedBodies(w) ==
    {i \in 1..Len(w.bodies) :
        /\ w.bodies[i].heading > 0
        /\ w.bodies[i].section \in
              {"summary", "education", "projects", "certifications", "experience"}}

\* the body paragraph is in the field of its section
Kept(w, data, i) ==
    AppearsIn(Strip(w.paragraphs[w.bodies[i].at].text), data, FieldOf(w.bodies[i].section))

\* C29: no body paragraph of a recognised section is lost: each appears in
\* the field of its section, also when the heading of the section occurs
\* twice and when an experience section has a body before any Heading 2 or
\* Heading 3.
C29_NoBodyLost ==
    walk.pc = "done" =>
        \A i \in RecognisedBodies(walk) : Kept(walk, upload.parsed_data, i)

\* the body paragraphs of an experience section with no entry open
BeforeEntry(w) == {i \in RecognisedBodies(w) : w.bodies[i].section = "experience"
                                               /\ ~w.bodies[i].entry}

\* the body paragraphs whose section was opened again by a later Heading 1
OpenedAgain(w) ==
    {i \in RecognisedBodies(w) :
        \E j \in (w.bodies[i].at + 1)..Len(w.paragraphs) :
            /\ IsHeading1(w.paragraphs[j])
            /\ _classify_section(Strip(w.paragraphs[j].text)) = w.bodies[i].section}

\* what does hold: the other body paragraphs are kept
C29_KeptOtherwise ==
    walk.pc = "done" =>
        \A i \in RecognisedBodies(walk) \ (BeforeEntry(walk) \cup OpenedAgain(walk)) :
            Kept(walk, upload.parsed_data, i)

\* a projects section whose heading occurs twice lost its body
C29_LostByRepeat ==
    /\ walk.pc = "done"
    /\ walk.paragraphs = <<P("Heading 1", "Projects"), P("Normal", "Built a resume tool"),
                           P("Heading 1", "Projects")>>
    /\ upload.parsed_data.projects_text = ""

\* an experience section lost the body before its first Heading 2
C29_LostBeforeEntry ==
    /\ walk.pc = "done"
    /\ walk.paragraphs = <<P("Heading 1", "Experience"), P("List Bullet", "~ Led a team of 5"),
                           P("Heading 2", "2021")>>
    /\ upload.parsed_data.experience_text = " (2021)"

\* the output line after the marker the input line begins with
AfterMarker(line, out) ==
    IF StartsWith(line, Bullet \o " ") \/ StartsWith(line, "- ") THEN From(out, 3) ELSE out

\* the content of a line: line.strip().lstrip(markers)
ContentOfLine(line) == LStripSet(Strip(line), Markers)

\* the rules whose pattern matches the content
Matching(s) == {n \in 1..Len(replacements) : ApplyRule(n, s) # s}

\* what one line may become when at most one rule, the first that matches,
\* is applied to its content
OneRuleOnly(s, after) ==
    IF Matching(s) = {} THEN after = Capitalise(s)
    ELSE after = Capitalise(Strip(ApplyRule(SetMin(Matching(s)), s)))

\* what C27 says of an input line and the output line at its place
LineKept(line, out) ==
    /\ Strip(line) = "" => out = line
    /\ StartsWith(line, Bullet \o " ") => StartsWith(out, Bullet \o " ")
    /\ StartsWith(line, "- ") => StartsWith(out, "- ")
    /\ ContentOfLine(line) # "" => OneRuleOnly(ContentOfLine(line), AfterMarker(line, out))
    /\ AfterMarker(line, out) # "" => Ch(AfterMarker(line, out), 1) \notin LowerSet

LinesKept(lines, outs) ==
    /\ Len(outs) = Len(lines)
    /\ \A i \in 1..Len(lines) : LineKept(lines[i], outs[i])

C27_BlankLine ==
    /\ bullets_run.op = "rewrite"
    /\ bullets_run.input = "  \n- made things"
    /\ bullets_run.output = "  \n- Created things"

\* the "~ " lines of the non-blank responsibilities from the i-th on
RECURSIVE RuleLinesFrom(_, _, _)
RuleLinesFrom(rs, i, first) ==
    IF i > Len(rs) THEN ""
    ELSE IF Strip(rs[i]) = "" THEN RuleLinesFrom(rs, i + 1, first)
    ELSE (IF first THEN "" ELSE "\n") \o Bullet \o " " \o LStripSet(rs[i], {Bullet, " "})
         \o RuleLinesFrom(rs, i + 1, FALSE)

\* the block of one rewritten entry
RuleBlockOf(e) ==
    e.title \o " | " \o e.company \o " (" \o e.duration \o ")\n"
    \o RuleLinesFrom(e.responsibilities, 1, TRUE)

\* the blocks of the entries from the i-th on, a blank line between them
RECURSIVE RuleBlocksFrom(_, _, _)
RuleBlocksFrom(h, refs, i) ==
    IF i > Len(refs) THEN ""
    ELSE (IF i = 1 THEN "" ELSE "\n\n") \o RuleBlockOf(h[refs[i]])
         \o RuleBlocksFrom(h, refs, i + 1)

\* the entry new is the entry old with each line of its responsibilities
\* rewritten
EntryRewritten(old, new) ==
    /\ new.title = old.title /\ new.company = old.company /\ new.duration = old.duration
    /\ Len(new.responsibilities) = Len(old.responsibilities)
    /\ \A j \in 1..Len(old.responsibilities) :
           new.responsibilities[j] = _rewrite_bullets(old.responsibilities[j])

\* what C22 says of the record data and the record enhanced made from it
EntriesFirst(h, data, enhanced) ==
    /\ Len(h[enhanced].experience_entries) = Len(h[data].experience_entries)
    /\ \A i \in 1..Len(h[data].experience_entries) :
           EntryRewritten(h[h[data].experience_entries[i]],
                          h[h[enhanced].experience_entries[i]])
    /\ h[enhanced].experience_text = RuleBlocksFrom(h, h[enhanced].experience_entries, 1)

\* the deterministic rewriter has just returned the record enhanced_data for
\* a record with entries
RuleReturned ==
    /\ last.path = "rule"
    /\ enhanced_data # 0
    /\ heap[last.input].experience_entries # <<>>

\* C22: for a record with experience_entries the deterministic rewriter
\* rewrites the responsibilities of each entry line by line, keeps the
\* number and the order of the entries and of their lines, and builds
\* experience_text again from the rewritten entries, in place of the
\* rewrite of the free text.
C22_EntriesTakePrecedence ==
    RuleReturned => EntriesFirst(heap, last.input, enhanced_data)

\* a record with entries and a free text of its own: the text returned is
\* built from the entries, not the rewrite of the free text
C22_Witness ==
    /\ RuleReturned
    /\ heap[last.input].experience_text = "worked on 3 services at Acme"
    /\ _rewrite_bullets(heap[last.input].experience_text) = "Developed 3 services at Acme"
    /\ heap[enhanced_data].experience_text =
          "Developer | Acme (2020-2022)\n" \o Bullet \o " Managed 3 services\n"
          \o Bullet \o " Assisted in code reviews\n\nIntern |  (2019)\n"
    /\ heap[heap[enhanced_data].experience_entries[1]].responsibilities =
          <<"Managed 3 services", Bullet \o " Assisted in code reviews">>

\* the place among the sub-calls of the call for the kind (0: no such call)
CallFor(kinds, kind) ==
    IF \E k \in 1..Len(kinds) : kinds[k] = kind
    THEN CHOOSE k \in 1..Len(kinds) : kinds[k] = kind
    ELSE 0

\* the place among the sub-calls of the call for the i-th entry of the
\* record (0: the entry has no text, and no call)
BulletsCallFor(h, data, i) ==
    IF GptText(h[h[data].experience_entries[i]]) = "" THEN 0
    ELSE CallFor(SubCallKinds(h, data), "bullets") - 1
         + Cardinality({j \in 1..i : GptText(h[h[data].experience_entries[j]]) # ""})

\* the sub-call at the place returned no output
NoOutput(log, k) == k > 0 /\ log[k].outcome = "error"

\* the two entries hold the same responsibilities: the same type and the
\* same value
SameResponsibilities(old, new) ==
    /\ IsStr(old) = IsStr(new)
    /\ old.responsibilities = new.responsibilities

TextFields == <<[key |-> "summary", kind |-> "summary"],
                [key |-> "experience_text", kind |-> "experience"],
                [key |-> "projects_text", kind |-> "projects"],
                [key |-> "skills", kind |-> "skills"]>>

\* a field whose sub-call returned nothing is the original's
FieldsKept(h, data, enhanced, log) ==
    \A f \in 1..Len(TextFields) :
        NoOutput(log, CallFor(SubCallKinds(h, data), TextFields[f].kind)) =>
            h[enhanced][TextFields[f].key] = h[data][TextFields[f].key]

\* the entries whose sub-call returned nothing, among those in `entries`,
\* hold the original's responsibilities
EntriesKept(h, data, enhanced, log, entries) ==
    \A i \in entries :
        NoOutput(log, BulletsCallFor(h, data, i)) =>
            SameResponsibilities(h[h[data].experience_entries[i]],
                                 h[h[enhanced].experience_entries[i]])

\* a field whose sub-call returned a text holds it, whatever the other
\* sub-calls returned
OthersUntouched(h, data, enhanced, log) ==
    /\ \A f \in 1..3 :
          (/\ CallFor(SubCallKinds(h, data), TextFields[f].kind) > 0
           /\ ~NoOutput(log, CallFor(SubCallKinds(h, data), TextFields[f].kind))) =>
              h[enhanced][TextFields[f].key] =
                  Strip(Content(log[CallFor(SubCallKinds(h, data), TextFields[f].kind)].outcome,
                                TextFields[f].kind, h[data][TextFields[f].key]))
    /\ \A key \in {"name", "email", "education_text", "certifications", "project_entries"} :
          h[enhanced][key] = h[data][key]

\* the AI path has returned a record
GptReturned == last.path = "ai" /\ enhanced_data # 0

\* C23: in the AI path a field whose sub-call returns no output equals the
\* original value, and only that field is affected; so for summary,
\* experience_text, projects_text, skills and the responsibilities of each
\* entry, be they a list of lines or one str of several lines.
C23_MissingOutputKeepsField ==
    GptReturned =>
        /\ FieldsKept(heap, last.input, enhanced_data, ai_log)
        /\ EntriesKept(heap, last.input, enhanced_data, ai_log,
                       1..Len(heap[last.input].experience_entries))
        /\ OthersUntouched(heap, last.input, enhanced_data, ai_log)

\* what does hold: the same, for the entries whose responsibilities are a
\* list
C23_KeepsFieldsAndLists ==
    GptReturned =>
        /\ FieldsKept(heap, last.input, enhanced_data, ai_log)
        /\ EntriesKept(heap, last.input, enhanced_data, ai_log,
                       {i \in 1..Len(heap[last.input].experience_entries) :
                           ~IsStr(heap[heap[last.input].experience_entries[i]])})
        /\ OthersUntouched(heap, last.input, enhanced_data, ai_log)

\* a list came back as it was after a sub-call without output
C23_ListKept ==
    /\ GptReturned
    /\ last.input = 2
    /\ NoOutput(ai_log, BulletsCallFor(heap, 2, 1))
    /\ heap[heap[enhanced_data].experience_entries[1]].responsibilities =
          <<"Was responsible for 3 services", Bullet \o " helped with code reviews">>
    /\ ~NoOutput(ai_log, 1)

\* a str came back as the list of its characters after a sub-call without
\* output
C23_StrSplit ==
    /\ GptReturned
    /\ last.input = 1
    /\ NoOutput(ai_log, BulletsCallFor(heap, 1, 1))
    /\ ~IsStr(heap[heap[enhanced_data].experience_entries[1]])
    /\ heap[heap[enhanced_data].experience_entries[1]].responsibilities =
          <<Bullet, " ", "B", "u", "i", "l", "t", " ", "A", "P", "I", "s">>

\* the contact fields missing from the record
MissingOf(data) == {f \in {"name", "email", "phone"} : data[f] = ""}

\* the format score as C28 computes it, before the clamp
FormatSum(data, wc) ==
    60 + (IF MissingOf(data) = {} THEN 15 ELSE 0 - 10 * Cardinality(MissingOf(data)))
       + (IF data.linkedin # "" THEN 10 ELSE 0)
       + (IF wc < 300 THEN 0 - 10 ELSE IF wc <= 900 THEN 15 ELSE 0)

Clamped(x) == IF x > 100 THEN 100 ELSE IF x < 0 THEN 0 ELSE x

\* the suggestions there are, one for each reason C28 names
SuggestionsFor(data, wc, sg) ==
    /\ Len(sg) = (IF MissingOf(data) = {} THEN 0 ELSE 1)
                 + (IF data.linkedin = "" THEN 1 ELSE 0) + (IF wc < 300 THEN 1 ELSE 0)
    /\ MissingOf(data) # {} <=>
          \E i \in 1..Len(sg) : StartsWith(sg[i], "Missing contact info: ")
    /\ \A f \in {"name", "email", "phone"} :
          f \in MissingOf(data) <=>
              \E i \in 1..Len(sg) :
                  StartsWith(sg[i], "Missing contact info: ") /\ Contains(f, sg[i])
    /\ data.linkedin = "" <=> \E i \in 1..Len(sg) : sg[i] = "Add your LinkedIn profile URL"
    /\ wc < 300 <=> \E i \in 1..Len(sg) : StartsWith(sg[i], "Resume too short")

FormatAsStated(data, wc, result) ==
    /\ result.score = <<Clamped(FormatSum(data, wc)), 1>>
    /\ result.score[1] >= 20 /\ result.score[1] <= 100
    /\ SuggestionsFor(data, wc, result.sg)

\* C28: the format score is 60, minus 10 for each missing field among name,
\* email and phone or plus 15 when none is missing, plus 10 with a LinkedIn,
\* plus 15 for 300 to 900 words, minus 10 below 300 and unchanged above 900,
\* clamped to [0, 100]; it lies in [20, 100]; and there is a suggestion
\* exactly for missing contact fields, for a missing LinkedIn and for fewer
\* than 300 words.
C28_FormatScore ==
    score_run.op = "format" =>
        FormatAsStated(heap[score_run.data], WordCount(score_run.raw_text), score_run.builtin)

\* the lowest score: nothing present and a short text
C28_Witness ==
    /\ score_run.op = "format"
    /\ MissingOf(heap[score_run.data]) = {"name", "email", "phone"}
    /\ heap[score_run.data].linkedin = ""
    /\ WordCount(score_run.raw_text) = 299
    /\ score_run.builtin.score = <<20, 1>>
    /\ Len(score_run.builtin.sg) = 3

\* the highest score: everything present and 900 words
C28_Highest ==
    /\ score_run.op = "format"
    /\ MissingOf(heap[score_run.data]) = {}
    /\ heap[score_run.data].linkedin # ""
    /\ WordCount(score_run.raw_text) = 900
    /\ score_run.builtin = [score |-> <<100, 1>>, sg |-> <<>>]

\* more than 900 words: no points, no suggestion
C28_LongText ==
    /\ score_run.op = "format"
    /\ MissingOf(heap[score_run.data]) = {"phone"}
    /\ heap[score_run.data].linkedin # ""
    /\ WordCount(score_run.raw_text) = 901
    /\ score_run.builtin = [score |-> <<60, 1>>, sg |-> <<"Missing contact info: phone">>]

(***************************************************************************)
(* C30: the enhanced record and the saved record of the session            *)
(***************************************************************************)
\* the session holds an enhanced record, with its score
HoldsEnhanced == enhanced_data # 0 /\ session.enhanced_score # None

\* C30: after any sequence of save, score, enhance and generate actions, the
\* document generated at step 5 is built from the record saved last, or from
\* an enhanced record derived from the record saved last: never from an
\* enhanced record derived from a record saved before the most recent save.
C30_DocumentFromLastSave ==
    (step = 5 /\ session.generated) => session.final = session.saved

\* C30, the records held: the enhanced record and the enhanced score of the
\* session are derived from the record the session holds as saved
C30_EnhancedFromLastSave ==
    HoldsEnhanced => session.derived = resume_data

\* C30, the scores compared: the original score and the enhanced score shown
\* side by side are scores of the same saved record, the one held
C30_ScoresOfLastSave ==
    (HoldsEnhanced /\ session.original_score # None) =>
        (session.scored = resume_data /\ session.derived = resume_data)

\* a document of Bo Chen, with the rewritten summary of Bo Chen, generated
\* while the record saved is that of Cy Diaz
C30_StaleDocument ==
    /\ step = 5 /\ session.generated
    /\ resume_data = 3 /\ session.saved = 3 /\ session.final = 2
    /\ session.docx_bytes[1] = "Bo Chen"
    /\ heap[resume_data].name = "Cy Diaz"

\* a document generated from the enhanced record of the record saved last
C30_FreshDocument ==
    /\ step = 5 /\ session.generated
    /\ enhanced_data # 0 /\ session.final = resume_data /\ resume_data = 2
    /\ session.docx_bytes[1] = heap[resume_data].name
    /\ session.docx_bytes[2] = "bo@x.org"

\* a document generated from the saved record, nothing being enhanced yet
C30_PlainDocument ==
    /\ step = 5 /\ session.generated
    /\ enhanced_data = 0
    /\ session.docx_bytes = generate_docx(Deep(heap, resume_data))

====
